---- MODULE Spec2Model ----
(***************************************************************************)
(* A model of the dann vector index (skyitachi/dann).                      *)
(*                                                                         *)
(* Part I  : the IVF core - the distance kernel (utils/util.cpp), k-means  *)
(*           training (core/clustering.cpp), the shard posting store       *)
(*           (core/ivf_shard.cpp) and the two build paths of               *)
(*           DistributedIndexIVF (core/distributed_index_ivf.cpp).         *)
(* Part II : the single-node wrapper Index over VectorIndex shards         *)
(*           (core/index.cpp, core/vector_index.cpp).                      *)
(*                                                                         *)
(* Floats.  Every float of the model is an integer.  Input coordinates of  *)
(* the builds are multiples of Unit, a multiple of every cluster size that *)
(* can occur, so every centroid (a sum of input rows divided by a count)   *)
(* is an integer and every squared distance is an integer below 2^24: the  *)
(* float32 arithmetic of the code is exact on these inputs.  The distance  *)
(* kernels round every product and every sum to float32 (F32), which       *)
(* matters for the inputs of the kernel calls, whose sums pass 2^24.       *)
(***************************************************************************)
EXTENDS Integers, Sequences, FiniteSets, TLC

VARIABLES
    in_vectors,   \* the caller's flat float array handed to build (vectors)
    in_ids,       \* the caller's id array handed to build (ids)
    shuffle_rot,  \* how std::shuffle under the fixed clustering seed permutes
    ivf,          \* the DistributedIndexIVF objects, by name
    hist,         \* per object: the build calls that returned, oldest first
    fault,        \* "none"; "assert", "segv": how the process died; "oob": a
                  \* build read outside the training set and went on (the
                  \* run is followed no further)
    index,        \* the Index object: dimension and its VectorIndex shards
    result,       \* what the last search returned
    call,         \* the last Index / VectorIndex call and its arguments
    mutex,        \* the holder of the shard's mutex_ (0: nobody)
    threads,      \* per thread: the VectorIndex call it is in and where
    disk,         \* the index file save_index wrote (<<>>: no file)
    router,       \* the QueryRouter: caching flag, cache, metrics
    loader,       \* the BulkLoader: metrics, and the loads that returned
    clocks,       \* the VectorClock objects of the ConsistencyManager, by name
    handler,      \* the MessageHandler, its processing threads and its caller
    manager,      \* the ConsistencyManager's anti-entropy thread and callers
    storage,      \* the LocalStorage: mutex, cache, files and the calling thread
    cluster       \* the NodeManager: cluster nodes, clock and health monitor

varsIVF == <<in_vectors, in_ids, shuffle_rot, ivf, hist, fault>>
varsIDX == <<index, result, call>>
varsSVC == <<clocks, handler, manager, storage, cluster>>
varsMT == <<mutex, threads, disk, router, loader, varsSVC>>
vars == <<in_vectors, in_ids, shuffle_rot, ivf, hist, fault, index, result, call,
          mutex, threads, disk, router, loader, varsSVC>>

(***************************************************************************)
(* Bounds of the model.                                                    *)
(***************************************************************************)
MaxBuilds == 2          \* build calls explored per index object
MaxShards == 2          \* shard_count ranges over 1..MaxShards

Objs == {"a", "b"}      \* index objects constructed with the same arguments
Dims == {2}             \* dimension d of the index
ExpectedSizes == {1}    \* constructor argument ntotal (so k = get_nlist(1) = 8)
SizeOffsets == {-1, 0, 1}  \* a build gets k + offset vectors
SampleRots == {0, 1}    \* outcomes of the std::random_device shuffle of a sampler
ShuffleRots == {0, 1}   \* candidate outcomes of the seeded std::shuffle
GarbageInts == {0, 1}   \* values an uninitialised int may be read as

\* lcm(1..10): a multiple of every cluster size of at most ten vectors
Unit == 8 * 9 * 5 * 7
Coords == {0, Unit}

Min(a, b) == IF a < b THEN a ELSE b

\* all rows of dimension d over Coords
Points(d) == [1..d -> Coords]

\* an array with the elements of f, a function on 1..n
Array(f) == f \o <<>>

\* row i (from 0) of the flat array x of rows of length d
Row(x, i, d) == SubSeq(x, i * d + 1, i * d + d)

RECURSIVE Flatten(_)
Flatten(rows) == IF rows = <<>> THEN <<>> ELSE Head(rows) \o Flatten(Tail(rows))

(***************************************************************************)
(* utils/util.cpp                                                          *)
(***************************************************************************)
\* std::numeric_limits<float>::max(); every modelled distance is far below it
FLT_MAX == 2147483647

\* the spacing of the float32 values around v >= 0: 1 below 2^24, doubling
\* with every further binary digit (the values of the model stay below 2^30)
RECURSIVE Ulp(_, _)
Ulp(v, u) == IF v < 16777216 * u \/ u >= 64 THEN u ELSE Ulp(v, 2 * u)

\* the float32 nearest to the integer v, ties to the even significand: what a
\* float operation with the exact result v stores
Nearest32(v) ==
    LET a == IF v < 0 THEN 0 - v ELSE v
        u == Ulp(a, 1)
        q == a \div u
        rem == a % u
        up == 2 * rem > u \/ (2 * rem = u /\ q % 2 = 1)
        r == IF up THEN (q + 1) * u ELSE q * u
    IN  IF v < 0 THEN 0 - r ELSE r

\* the float32 result of an operation whose exact result is v (v is
\* computed once, then rounded)
F32(v) ==
    CHOOSE r \in {IF -16777216 <= w /\ w <= 16777216 THEN w ELSE Nearest32(w) : w \in {v}} : TRUE

\* diff * diff for diff = x[i] - y[i]
SquaredDiff(x, y, i) ==
    CHOOSE r \in {F32(diff * diff) : diff \in {F32(x[i] - y[i])}} : TRUE

RECURSIVE L2Sum(_, _, _)
L2Sum(x, y, i) ==
    IF i = 0 THEN 0
    ELSE F32(L2Sum(x, y, i - 1) + SquaredDiff(x, y, i))

\* float L2_distance(const float* x, const float* y, int d)
L2_distance(x, y, d) == L2Sum(x, y, d)

\* the scan of find_closest: strict < keeps the first minimum
RECURSIVE ClosestScan(_, _, _, _, _, _, _)
ClosestScan(x, y, d, n, i, min_dis, r) ==
    IF i >= n THEN r
    ELSE LET dis == L2_distance(Row(x, i, d), y, d)
         IN  IF dis < min_dis
             THEN ClosestScan(x, y, d, n, i + 1, dis, i)
             ELSE ClosestScan(x, y, d, n, i + 1, min_dis, r)

\* int64_t find_closest(const float* x, const float* y, int d, int n)
find_closest(x, y, d, n) == ClosestScan(x, y, d, n, 0, FLT_MAX, 0)

(***************************************************************************)
(* core/clustering.cpp                                                     *)
(***************************************************************************)
\* ClusteringParameters::niter
niter == 25

\* std::iota(local_indices.begin(), local_indices.end(), 0)
Iota(n) == Array([i \in 1..n |-> i - 1])

\* std::shuffle under a generator in a fixed state: the same positions are
\* exchanged whatever the array holds, so it is a fixed permutation of the
\* positions; the candidates modelled are the rotations by rot
Shuffle(seq, rot) ==
    LET n == Len(seq)
    IN  Array([i \in 1..n |-> seq[((i - 1 + rot) % n) + 1]])

\* step 1 of a restart: centroid i is training row local_indices[i]; for
\* i >= n the read of local_indices[i] is outside the array, and the row
\* copied is whatever lies there (oob[i])
InitialCentroids(vectors, n, d, k, local_indices, oob) ==
    Flatten([i \in 1..k |->
        IF i <= n THEN Row(vectors, local_indices[i], d) ELSE oob[i - 1]])

\* step 2.1, inner loop over the centroids: strict < keeps the first minimum
RECURSIVE AssignScan(_, _, _, _, _, _, _)
AssignScan(v, centroids, d, k, j, min_dis, centroid_j) ==
    IF j >= k THEN centroid_j
    ELSE LET dist == L2_distance(v, Row(centroids, j, d), d)
         IN  IF dist < min_dis
             THEN AssignScan(v, centroids, d, k, j + 1, dist, j)
             ELSE AssignScan(v, centroids, d, k, j + 1, min_dis, centroid_j)

\* step 2.1: assign[i] for every training vector (assign[i] is element i + 1)
Assign(vectors, n, d, k, centroids) ==
    Array([i \in 1..n |->
        AssignScan(Row(vectors, i - 1, d), centroids, d, k, 0, FLT_MAX, 0)])

RECURSIVE CountOf(_, _, _)
CountOf(assign, j, i) ==
    IF i < 0 THEN 0
    ELSE CountOf(assign, j, i - 1) + (IF assign[i + 1] = j THEN 1 ELSE 0)

RECURSIVE SumOf(_, _, _, _, _, _)
SumOf(vectors, assign, d, j, c, i) ==
    IF i < 0 THEN 0
    ELSE SumOf(vectors, assign, d, j, c, i - 1)
         + (IF assign[i + 1] = j THEN vectors[i * d + c] ELSE 0)

\* step 2.2: std::fill(0), accumulate, divide by the count; a centroid with
\* count 0 is skipped by the division and stays at the zeros of the fill
Update(vectors, n, d, k, assign) ==
    Array([p \in 1..(k * d) |->
        LET j == (p - 1) \div d
            c == ((p - 1) % d) + 1
            count == CountOf(assign, j, n - 1)
        IN  IF count = 0 THEN 0
            ELSE SumOf(vectors, assign, d, j, c, n - 1) \div count])

RECURSIVE MaxChange(_, _, _, _)
MaxChange(prev_centroids, centroids, d, i) ==
    IF i < 0 THEN 0
    ELSE LET change == L2_distance(Row(prev_centroids, i, d), Row(centroids, i, d), d)
             rest == MaxChange(prev_centroids, centroids, d, i - 1)
         IN  IF change > rest THEN change ELSE rest

\* the test of step 2.3 without its threshold
BelowAnyThreshold(max_change) == TRUE

\* max_change < convergence_threshold (1e-6f): squared distances are integers
BelowThreshold(max_change) == max_change < 1

\* the loop over t: iteration t, then the test of step 2.3
RECURSIVE Iterate(_, _, _, _, _, _)
Iterate(vectors, n, d, k, centroids, t) ==
    LET next == Update(vectors, n, d, k, Assign(vectors, n, d, k, centroids))
    IN  IF t > 0 /\ BelowThreshold(MaxChange(centroids, next, d, k - 1)) THEN next
        ELSE IF t + 1 >= niter THEN next
        ELSE Iterate(vectors, n, d, k, next, t + 1)

\* the loop over redo: every restart shuffles local_indices again, overwrites
\* all k centroids and iterates; what the last restart leaves is the result
RECURSIVE Redo(_, _, _, _, _, _, _, _, _)
Redo(vectors, n, d, k, nredo, rot, oob, local_indices, centroids) ==
    IF nredo <= 0 THEN centroids
    ELSE LET shuffled == Shuffle(local_indices, rot)
             init == InitialCentroids(vectors, n, d, k, shuffled, oob)
             done == IF niter <= 0 THEN init ELSE Iterate(vectors, n, d, k, init, 0)
         IN  Redo(vectors, n, d, k, nredo - 1, rot, oob, shuffled, done)

\* void Clustering::train(vectors, ids) with n = ids.size(): the centroids
\* member after the call, from the centroids member before it
Train(vectors, n, d, k, nredo, rot, oob, centroids) ==
    Redo(vectors, n, d, k, nredo, rot, oob, Iota(n), centroids)

\* the rows an out-of-bounds initial centroid may be read as: one row per
\* centroid index n..k-1
OobRows(n, d, k) == [n..(k - 1) -> Points(d)]

(***************************************************************************)
(* core/ivf_shard.cpp                                                      *)
(***************************************************************************)
\* InvertedList()
EmptyList == [vector_ids |-> <<>>, vectors |-> <<>>]

\* the conversion of an int64_t id to float (ids are far below 2^24: exact)
IdAsFloat(id) == id

\* what add_posting appends to the float array of the list
PostingFloats(posting) ==
    Array([i \in 1..Len(posting.vector_ids) |-> IdAsFloat(posting.vector_ids[i])])

\* void IndexIVFShard::add_posting(int centroid, const InvertedList& posting),
\* on the shard's postings_ map
add_posting(postings, centroid, posting) ==
    LET base == IF centroid \in DOMAIN postings
                THEN postings
                ELSE postings @@ (centroid :> EmptyList)
    IN  [base EXCEPT ![centroid] =
            [vector_ids |-> @.vector_ids \o posting.vector_ids,
             vectors    |-> @.vectors \o PostingFloats(posting)]]

(***************************************************************************)
(* core/distributed_index_ivf.cpp                                          *)
(***************************************************************************)
\* floor(sqrt(m)) by bisection on [lo, hi)
RECURSIVE SqrtBisect(_, _, _)
SqrtBisect(m, lo, hi) ==
    IF hi - lo <= 1 THEN lo
    ELSE LET mid == (lo + hi) \div 2
         IN  IF mid * mid <= m THEN SqrtBisect(m, mid, hi) ELSE SqrtBisect(m, lo, mid)

\* 8 * int64_t(sqrt(N)): the square root truncated before the product
EightFloorSqrt(N) == 8 * SqrtBisect(N, 0, 1001)

\* int64_t(8 * sqrt(N)) for 0 <= N < 10^6: 8 * sqrt(N) is an integer or at
\* least 6e-5 away from one, so the double rounds to the same integer
EightSqrt(N) == SqrtBisect(64 * N, 0, 8001)

\* int64_t get_nlist(int64_t N)
get_nlist(N) ==
    IF N < 1000000 THEN EightSqrt(N)
    ELSE IF N < 10000000 THEN 65536
    ELSE IF N < 100000000 THEN 262144
    ELSE IF N < 1000000000 THEN 1048576
    ELSE N

\* the factor of n_train = clustering_->k * 64
TrainFactor == 64

\* ClusteringParameters has no nredo member in clustering.h; the restarts
\* value of the faiss parameters it mirrors
DefaultNredo == 1

\* DistributedIndexIVF::DistributedIndexIVF(name, d, n, shards, nodes): the
\* object after construction.  reserved is <<>> until the storage that
\* global_centroid_ids_.reserve() allocated is read while the array is still
\* empty, and <<g>> once it was read as g
NewIVF(d, n, shards) ==
    [dimension          |-> d,
     ntotal             |-> n,
     shard_counts       |-> shards,
     k                  |-> get_nlist(n),
     nredo              |-> DefaultNredo,
     centroids          |-> <<>>,
     global_centroids   |-> <<>>,
     global_centroid_ids |-> <<>>,
     reserved           |-> <<>>,
     shards             |-> [s \in 0..(shards - 1) |-> <<>>],
     is_trained         |-> FALSE]

\* assert(dimension_ != 0); assert(vectors.size() / dimension_ == ids.size())
ShapeAssert(vectors, ids, d) == d # 0 /\ Len(vectors) \div d = Len(ids)

\* the sampler that keeps the first rows of the shuffled indices
sample_first_vectors(vectors, n_train, d, indices) ==
    Flatten([i \in 1..Min(n_train, Len(vectors) \div d) |-> Row(vectors, i - 1, d)])

\* std::vector<float> sample_training_vectors(vectors, n_train): indices is
\* the index array as the std::random_device seeded shuffle left it
sample_training_vectors(vectors, n_train, d, indices) ==
    LET total_vectors == Len(vectors) \div d
        actual_n_train == Min(n_train, total_vectors)
    IN  Flatten([i \in 1..actual_n_train |-> Row(vectors, indices[i], d)])

\* the replacement loop of the reservoir sampler; draws[i] is dist(gen) at i
RECURSIVE Reservoir(_, _, _, _, _)
Reservoir(reservoir, i, total_vectors, actual_n_train, draws) ==
    IF i >= total_vectors THEN reservoir
    ELSE LET j == draws[i]
         IN  Reservoir(IF j < actual_n_train
                       THEN [reservoir EXCEPT ![j + 1] = i]
                       ELSE reservoir,
                       i + 1, total_vectors, actual_n_train, draws)

\* the values dist(gen) can take in the replacement loop
ReservoirDraws(vectors, n_train, d) ==
    LET total_vectors == Len(vectors) \div d
        actual_n_train == Min(n_train, total_vectors)
    IN  IF actual_n_train >= total_vectors THEN {<<>>}
        ELSE {f \in [actual_n_train..(total_vectors - 1) -> 0..(total_vectors - 1)] :
                \A i \in DOMAIN f : f[i] <= i}

\* std::vector<float> sample_training_vectors_optimized(vectors, n_train)
sample_training_vectors_optimized(vectors, n_train, d, draws) ==
    LET total_vectors == Len(vectors) \div d
        actual_n_train == Min(n_train, total_vectors)
    IN  IF actual_n_train >= total_vectors THEN vectors
        ELSE LET reservoir == Reservoir(Iota(actual_n_train), actual_n_train,
                                        total_vectors, actual_n_train, draws)
             IN  Flatten([i \in 1..actual_n_train |-> Row(vectors, reservoir[i], d)])

\* int64_t find_closest_optimized(x, y, d, n): the unrolled scans for d = 4 and
\* d = 8 add the same squares as L2_distance, in another order
RECURSIVE OptimizedScan(_, _, _, _, _, _, _)
OptimizedScan(x, y, d, n, i, min_dis, r) ==
    IF i >= n THEN r
    ELSE LET c == Row(x, i, d)
             sq(j) == SquaredDiff(c, y, j)
             four(j) == F32(F32(F32(sq(j) + sq(j + 1)) + sq(j + 2)) + sq(j + 3))
             dis == IF d = 4 THEN four(1)
                    ELSE IF d = 8 THEN F32(F32(0 + four(1)) + four(5))
                    ELSE L2_distance(c, y, d)
         IN  IF dis < min_dis
             THEN OptimizedScan(x, y, d, n, i + 1, dis, i)
             ELSE OptimizedScan(x, y, d, n, i + 1, min_dis, r)

find_closest_optimized(x, y, d, n) == OptimizedScan(x, y, d, n, 0, FLT_MAX, 0)

\* int shard_id = centroid % shard_counts_
ShardOfNext(centroid, shard_counts) == (centroid + 1) % shard_counts

ShardOf(centroid, shard_counts) == centroid % shard_counts

\* the positions (from 0, ascending) of the vectors assigned to centroid
CentroidToVectors(assigned, n, centroid) ==
    SelectSeq(Iota(n), LAMBDA i : assigned[i + 1] = centroid)

\* the inverted list build_index_optimized_by_swe1_5 makes for one centroid
MakeList(vectors, ids, d, members) ==
    [vector_ids |-> Array([i \in 1..Len(members) |-> ids[members[i] + 1]]),
     vectors    |-> Flatten([i \in 1..Len(members) |-> Row(vectors, members[i], d)])]

\* step 4 of build_index_optimized_by_swe1_5: every non-empty centroid, in
\* ascending order, goes to its shard through add_posting
RECURSIVE Distribute(_, _, _, _, _, _, _, _)
Distribute(shards, shard_counts, vectors, ids, d, assigned, centroid, num_centroids) ==
    IF centroid >= num_centroids THEN shards
    ELSE LET members == CentroidToVectors(assigned, Len(ids), centroid)
             shard_id == ShardOf(centroid, shard_counts)
             next == IF members = <<>> THEN shards
                     ELSE [shards EXCEPT ![shard_id] =
                             add_posting(@, centroid, MakeList(vectors, ids, d, members))]
         IN  Distribute(next, shard_counts, vectors, ids, d, assigned,
                        centroid + 1, num_centroids)

\* void DistributedIndexIVF::build_index_optimized_by_swe1_5(vectors, ids),
\* past its assertions: the object after the call
BuildOptimizedResult(obj, vectors, ids, rot, draws, oob) ==
    LET d == obj.dimension
        num_vectors == Len(ids)
        n_train == Min(obj.k * TrainFactor, num_vectors)
        train_vectors == sample_training_vectors_optimized(vectors, n_train, d, draws)
        actual_n_train == Len(train_vectors) \div d
        trained == Train(train_vectors, actual_n_train, d, obj.k, obj.nredo, rot,
                         oob, obj.centroids)
        num_centroids == Len(trained) \div d
        assigned == Array([i \in 1..num_vectors |->
                        find_closest_optimized(trained, Row(vectors, i - 1, d), d,
                                               num_centroids)])
    IN  [obj EXCEPT
            !.centroids = trained,
            !.global_centroids = trained,
            !.global_centroid_ids = Iota(num_centroids),
            !.reserved = <<>>,
            !.shards = Distribute(obj.shards, obj.shard_counts, vectors, ids, d,
                                  assigned, 0, num_centroids),
            !.is_trained = TRUE]

\* step 2 of build_index, the loop over the input: garbage is what the read
\* of global_centroid_ids_[centroid] past the size of the array returns
RECURSIVE GlobalPostings(_, _, _, _, _, _, _, _)
GlobalPostings(postings, vectors, ids, d, centroids, centroid_ids, garbage, i) ==
    IF i >= Len(ids) THEN postings
    ELSE LET centroid == find_closest(centroids, Row(vectors, i, d), d, Len(centroid_ids))
             key == IF centroid < Len(centroid_ids)
                    THEN centroid_ids[centroid + 1]
                    ELSE garbage
             found == key \in DOMAIN postings
             at == IF found THEN key ELSE centroid
             base == IF found THEN postings
                     ELSE [c \in (DOMAIN postings) \cup {centroid} |->
                             IF c = centroid THEN EmptyList ELSE postings[c]]
             grown == [base EXCEPT ![at] =
                         [vector_ids |-> Append(@.vector_ids, ids[i + 1]),
                          vectors    |-> @.vectors \o Row(vectors, i, d)]]
         IN  GlobalPostings(grown, vectors, ids, d, centroids, centroid_ids, garbage, i + 1)

\* step 3 of build_index: every global posting goes to its shard (the lists
\* have distinct keys, so the iteration order of the map does not matter)
RECURSIVE DistributeGlobal(_, _, _, _)
DistributeGlobal(shards, shard_counts, postings, todo) ==
    IF todo = {} THEN shards
    ELSE LET centroid == CHOOSE c \in todo : \A e \in todo : c <= e
             shard_id == ShardOf(centroid, shard_counts)
         IN  DistributeGlobal(
                 [shards EXCEPT ![shard_id] = add_posting(@, centroid, postings[centroid])],
                 shard_counts, postings, todo \ {centroid})

\* void DistributedIndexIVF::build_index(vectors, ids), past its assertions
BuildIndexResult(obj, vectors, ids, rot, sample_rot, oob, garbage) ==
    LET d == obj.dimension
        n_train == obj.k * TrainFactor
        train_vectors == sample_training_vectors(vectors, n_train, d,
                             Shuffle(Iota(Len(vectors) \div d), sample_rot))
        actual_n_train == Len(train_vectors) \div d
        trained == Train(train_vectors, actual_n_train, d, obj.k, obj.nredo, rot,
                         oob, obj.centroids)
        postings == GlobalPostings(<<>>, vectors, ids, d, trained,
                                   obj.global_centroid_ids, garbage, 0)
    IN  [obj EXCEPT
            !.centroids = trained,
            !.global_centroids = trained,
            !.reserved = IF obj.global_centroid_ids = <<>> /\ ids # <<>>
                         THEN <<garbage>> ELSE obj.reserved,
            !.shards = DistributeGlobal(obj.shards, obj.shard_counts, postings,
                                        DOMAIN postings),
            !.is_trained = TRUE]

(***************************************************************************)
(* The build calls as steps.  A call that trips an assertion aborts the    *)
(* process; a call whose training reads outside the training set either    *)
(* dies there or goes on with what it read.                                *)
(***************************************************************************)
\* the number of training vectors a build of the input at hand trains on
TrainCount(obj) == Min(obj.k * TrainFactor, Len(in_vectors) \div obj.dimension)

\* what fault becomes when a build returns
AfterBuild(obj) == IF TrainCount(obj) < obj.k THEN "oob" ELSE fault

\* whether a build dies in training: only a read outside the training set can
Dies(obj) == IF TrainCount(obj) < obj.k THEN BOOLEAN ELSE {FALSE}

\* what the reserved storage is read as: what it was read as before, if it was
Cell(obj) == IF obj.reserved # <<>> THEN {obj.reserved[1]}
             ELSE IF obj.global_centroid_ids = <<>> THEN GarbageInts
             ELSE {0}

BuildOptimized(o, limit) ==
    /\ fault = "none"
    /\ Len(hist[o]) < limit
    /\ UNCHANGED <<in_vectors, in_ids, shuffle_rot, index, result, call, mutex, threads, disk, router, loader, varsSVC>>
    /\ IF ~ShapeAssert(in_vectors, in_ids, ivf[o].dimension)
       THEN fault' = "assert" /\ UNCHANGED <<ivf, hist>>
       ELSE \E oob \in OobRows(TrainCount(ivf[o]), ivf[o].dimension, ivf[o].k),
               draws \in ReservoirDraws(in_vectors,
                                        Min(ivf[o].k * TrainFactor, Len(in_ids)),
                                        ivf[o].dimension),
               dies \in Dies(ivf[o]) :
            IF dies
            THEN fault' = "segv" /\ UNCHANGED <<ivf, hist>>
            ELSE /\ ivf' = [ivf EXCEPT ![o] =
                        BuildOptimizedResult(@, in_vectors, in_ids, shuffle_rot, draws, oob)]
                 /\ hist' = [hist EXCEPT ![o] = Append(@, "optimized")]
                 /\ fault' = AfterBuild(ivf[o])

BuildIndex(o, limit) ==
    /\ fault = "none"
    /\ Len(hist[o]) < limit
    /\ UNCHANGED <<in_vectors, in_ids, shuffle_rot, index, result, call, mutex, threads, disk, router, loader, varsSVC>>
    /\ IF ~ShapeAssert(in_vectors, in_ids, ivf[o].dimension)
       THEN fault' = "assert" /\ UNCHANGED <<ivf, hist>>
       ELSE \E oob \in OobRows(TrainCount(ivf[o]), ivf[o].dimension, ivf[o].k),
               sample_rot \in SampleRots,
               garbage \in Cell(ivf[o]),
               dies \in Dies(ivf[o]) :
            IF dies
            THEN fault' = "segv" /\ UNCHANGED <<ivf, hist>>
            ELSE /\ ivf' = [ivf EXCEPT ![o] =
                        BuildIndexResult(@, in_vectors, in_ids, shuffle_rot,
                                         sample_rot, oob, garbage)]
                 /\ hist' = [hist EXCEPT ![o] = Append(@, "basic")]
                 /\ fault' = AfterBuild(ivf[o])

(***************************************************************************)
(* The inputs of a run: the constructor arguments and the caller's arrays. *)
(***************************************************************************)
\* the rows a data set alternates: the origin and a row off the first axis
DataX(d) == [j \in 1..d |-> 0]
DataY(d) == {p \in Points(d) : p[1] = Unit}

\* n rows: x and y alternate, the last row is z
DataRows(n, x, y, z) ==
    Array([i \in 1..n |-> IF i = n THEN z ELSE IF i % 2 = 1 THEN x ELSE y])

\* m ids, distinct but for the last, which repeats the first
DataIds(m) == Array([i \in 1..m |-> IF i = m /\ m > 1 THEN 1 ELSE i])

\* "ok": n rows of d floats and n ids; "trailing": one float more than n
\* rows (d > 1); "short_ids": one id fewer than rows
Shapes == {"ok", "trailing", "short_ids"}

\* ill-shaped arrays are explored with k vectors and the identity shuffle
InitIVF ==
    \E d \in Dims, N \in ExpectedSizes, shards \in 1..MaxShards,
       off \in SizeOffsets, shape \in Shapes, rot \in ShuffleRots :
    \E y \in DataY(d), z \in Points(d) :
        LET n == get_nlist(N) + off
        IN  /\ n >= 1
            /\ shape = "trailing" => d > 1
            /\ shape # "ok" => (off = 0 /\ rot = 0)
            /\ in_vectors = Flatten(DataRows(n, DataX(d), y, z))
                            \o (IF shape = "trailing" THEN <<0>> ELSE <<>>)
            /\ in_ids = DataIds(IF shape = "short_ids" THEN n - 1 ELSE n)
            /\ shuffle_rot = rot
            /\ ivf = [o \in Objs |-> NewIVF(d, N, shards)]
            /\ hist = [o \in Objs |-> <<>>]
            /\ fault = "none"

NoCall == [op |-> "none", k |-> 0, ok |-> FALSE]

Threads == {1, 2}

IdleThread == [pc |-> "idle", op |-> "none"]

\* QueryRouter::QueryRouter: caching off, nothing cached, reset_metrics();
\* calls counts the execute_query calls since the last reset_metrics
NewRouter ==
    [caching_enabled |-> FALSE,
     query_cache     |-> {},
     metrics         |-> [total_queries |-> 0, successful_queries |-> 0,
                          failed_queries |-> 0],
     calls           |-> 0]

\* BulkLoader::BulkLoader: reset_metrics(); returned lists the loads that
\* returned, each with its value and its number of ids
NewLoader ==
    [metrics  |-> [total_loads |-> 0, successful_loads |-> 0, failed_loads |-> 0,
                   total_vectors_loaded |-> 0],
     returned |-> <<>>]

\* ConsistencyManager::VectorClock objects a, b and c as constructed: the
\* map clock is empty
ClockNames == {"a", "b", "c"}
NewClocks == [c \in ClockNames |-> <<>>]

\* MessageHandler::MessageHandler: not processing, four processing threads
\* to start, none started; queue_mutex is the holder of queue_mutex_ (0:
\* nobody), caller is where the thread that calls the handler is
NewHandler ==
    [processing             |-> FALSE,
     num_processing_threads |-> 4,
     queue_mutex            |-> 0,
     processing_threads     |-> <<>>,
     caller                 |-> "idle"]

\* ConsistencyManager::ConsistencyManager: running_ false, no anti-entropy
\* thread (anti_entropy_thread 0: the member is not joinable); loops lists
\* the threads started, callers is where each calling thread is, joining the
\* thread a caller is joining, stopped whether the last call that returned
\* was a stop with no start under way
NewManager ==
    [running             |-> FALSE,
     anti_entropy_thread |-> 0,
     loops               |-> <<>>,
     callers             |-> [t \in Threads |-> "idle"],
     joining             |-> [t \in Threads |-> 0],
     stopped             |-> FALSE]

\* LocalStorage::LocalStorage: nothing cached; mutex is the holder of
\* storage_mutex_ (0: nobody, 1: the calling thread), files the content of
\* the data directory by key, pc where the calling thread is in the call op
\* with arguments key and value, ret what the last call returned (a bool as
\* "true" or "false")
NewStorage ==
    [mutex        |-> 0,
     memory_cache |-> <<>>,
     files        |-> <<>>,
     pc           |-> "idle",
     op           |-> "none",
     key          |-> "",
     value        |-> "",
     ret          |-> <<>>]

\* NodeManager::NodeManager: not running, no cluster node, no health monitor.
\* now is the system clock in ms and ticks how often it advanced; monitor is
\* the health monitor thread: where it is, the clock value it read and the
\* failed nodes it has still to handle; left lists the nodes the leave
\* callback was invoked for
NewCluster ==
    [running                |-> FALSE,
     health_monitor_running |-> FALSE,
     nodes                  |-> <<>>,
     now                    |-> 0,
     ticks                  |-> 0,
     monitor                |-> [pc |-> "sleep", now_ms |-> 0, failed |-> {}],
     left                   |-> <<>>]

\* the other services are as constructed
IdleSVC ==
    /\ clocks = NewClocks
    /\ handler = NewHandler
    /\ manager = NewManager
    /\ storage = NewStorage
    /\ cluster = NewCluster

\* no thread is inside a VectorIndex call, no file was written, the router
\* and the loader are as constructed
IdleMT ==
    /\ mutex = 0
    /\ threads = [t \in Threads |-> IdleThread]
    /\ disk = <<>>
    /\ router = NewRouter
    /\ loader = NewLoader
    /\ IdleSVC

IdleIDX ==
    /\ index = [dimension |-> 1, shards |-> <<>>]
    /\ result = <<>>
    /\ call = NoCall

Init == InitIVF /\ IdleIDX /\ IdleMT

Next ==
    \/ BuildOptimized("a", MaxBuilds)
    \/ BuildIndex("a", MaxBuilds)

Spec == Init /\ [][Next]_vars

\* two index objects built from the same input, once each
NextPair ==
    \E o \in Objs :
        \/ BuildOptimized(o, 1)
        \/ BuildIndex(o, 1)

SpecPair == Init /\ [][NextPair]_vars

(***************************************************************************)
(* Properties of the IVF core.                                             *)
(***************************************************************************)
RECURSIVE SumLens(_, _)
SumLens(postings, todo) ==
    IF todo = {} THEN 0
    ELSE LET c == CHOOSE e \in todo : TRUE
         IN  Len(postings[c].vector_ids) + SumLens(postings, todo \ {c})

RECURSIVE SumShards(_, _)
SumShards(obj, s) ==
    IF s < 0 THEN 0
    ELSE SumLens(obj.shards[s], DOMAIN obj.shards[s]) + SumShards(obj, s - 1)

\* the number of ids stored over all inverted lists of all shards
TotalIds(obj) == SumShards(obj, obj.shard_counts - 1)

\* how often id is stored over all inverted lists of all shards
Stored(obj, id) ==
    Cardinality({<<s, c, i>> \in
        UNION {UNION {{<<s, c, i>> : i \in 1..Len(obj.shards[s][c].vector_ids)} :
                        c \in DOMAIN obj.shards[s]} :
               s \in DOMAIN obj.shards} :
        obj.shards[s][c].vector_ids[i] = id})

\* how often id occurs in the input
Given(id) == Cardinality({i \in 1..Len(in_ids) : in_ids[i] = id})

\* o was built once, by a call that returned, and nothing went wrong
BuiltOnce(o) == Len(hist[o]) = 1 /\ fault = "none"

\* no shard of obj holds a posting, no centroid is trained
IsEmpty(obj) ==
    /\ ~obj.is_trained
    /\ obj.global_centroids = <<>>
    /\ obj.centroids = <<>>
    /\ \A s \in DOMAIN obj.shards : DOMAIN obj.shards[s] = {}

\* C1: after one build of n vectors with n ids on a fresh index, the shards
\* hold n ids in all, and every id as often as the input gives it
C1_Conservation ==
    \A o \in Objs :
        BuiltOnce(o) =>
            /\ TotalIds(ivf[o]) = Len(in_ids)
            /\ \A i \in 1..Len(in_ids) : Stored(ivf[o], in_ids[i]) = Given(in_ids[i])

\* C2: every inverted list of every shard holds d floats per id
C2_ListShape ==
    \A o \in Objs : \A s \in DOMAIN ivf[o].shards : \A c \in DOMAIN ivf[o].shards[s] :
        Len(ivf[o].shards[s][c].vectors)
            = Len(ivf[o].shards[s][c].vector_ids) * ivf[o].dimension

\* C3: a centroid that has a posting is held by shard c mod shard_count, and
\* by no other shard
C3_CentroidPlacement ==
    \A o \in Objs : \A s \in DOMAIN ivf[o].shards : \A c \in DOMAIN ivf[o].shards[s] :
        /\ c % ivf[o].shard_counts = s
        /\ \A t \in DOMAIN ivf[o].shards : c \in DOMAIN ivf[o].shards[t] => t = s

\* C3 witness: a built index whose postings lie in two shards
C3_Witness ==
    \E s, t \in DOMAIN ivf["a"].shards :
        /\ s # t
        /\ DOMAIN ivf["a"].shards[s] # {}
        /\ DOMAIN ivf["a"].shards[t] # {}
        /\ hist["a"] # <<>>

\* the centroid of the table nearest to row: least squared distance, lowest
\* index among equals
Nearest(centroids, row, d) ==
    LET k == Len(centroids) \div d
        dis(c) == L2_distance(Row(centroids, c, d), row, d)
    IN  CHOOSE c \in 0..(k - 1) :
            \A e \in 0..(k - 1) : dis(c) < dis(e) \/ (dis(c) = dis(e) /\ c <= e)

\* the ids stored for centroid c, over all shards
ListIds(obj, c) ==
    UNION {{obj.shards[s][c].vector_ids[i] : i \in 1..Len(obj.shards[s][c].vector_ids)} :
           s \in {t \in DOMAIN obj.shards : c \in DOMAIN obj.shards[t]}}

\* C4: after one build every id lies in the list of the centroid nearest to
\* its vector, and every list holds only ids of vectors nearest to it
C4_NearestCentroid ==
    \A o \in Objs :
        BuiltOnce(o) =>
            LET obj == ivf[o]
                d == obj.dimension
                near(i) == Nearest(obj.global_centroids, Row(in_vectors, i - 1, d), d)
            IN  /\ \A i \in 1..Len(in_ids) : in_ids[i] \in ListIds(obj, near(i))
                /\ \A c \in 0..(obj.k - 1) : \A id \in ListIds(obj, c) :
                       \E i \in 1..Len(in_ids) : in_ids[i] = id /\ near(i) = c

\* C5: a build given arrays with vectors.size() # ids.size() * d leaves the
\* index Empty
C5_ShapeRejected ==
    \A o \in Objs :
        Len(in_vectors) # Len(in_ids) * ivf[o].dimension => IsEmpty(ivf[o])

\* C6: with fewer training vectors than centroids no step reads outside the
\* training set and the index stays as it was
C6_InsufficientData ==
    [][\A o \in Objs :
          (ShapeAssert(in_vectors, in_ids, ivf[o].dimension)
             /\ TrainCount(ivf[o]) < ivf[o].k)
          => (ivf'[o] = ivf[o] /\ fault' \notin {"segv", "oob"})]_vars

\* C7: two fresh indexes with the same arguments, each built once from the
\* same arrays by the same build, end with the same centroids and postings
C7_Determinism ==
    (BuiltOnce("a") /\ BuiltOnce("b") /\ hist["a"] = hist["b"]) =>
        /\ ivf["a"].global_centroids = ivf["b"].global_centroids
        /\ ivf["a"].shards = ivf["b"].shards

\* C8: a build of an index that was already built from the same arrays
\* leaves its centroids and its postings as they were
C8_IdempotentRebuild ==
    [][\A o \in Objs :
          (hist[o] # <<>> /\ hist'[o] # hist[o] /\ fault' = "none")
          => (/\ ivf'[o].global_centroids = ivf[o].global_centroids
              /\ ivf'[o].shards = ivf[o].shards)]_vars

(***************************************************************************)
(* Part II.  Index (index.cpp) over VectorIndex shards (vector_index.cpp). *)
(* A shard is the faiss IndexIDMap2 over IndexFlatL2 that create_index     *)
(* makes for the default index type: the (id, vector) entries in the order *)
(* they were added, with the version counter and the pending-operation log.*)
(* The time stamp of a log entry is left out.                              *)
(***************************************************************************)
MaxItems == 2           \* entries held by one Index over all its shards
MaxIndexShards == 2     \* shard_count ranges over 1..MaxIndexShards
MaxOps == 2             \* successful mutations of one Index
IndexDims == {1, 2}
IndexIds == {1, 2}
Bits == {0, 1}
FloatArrays == {<<>>} \cup [1..1 -> Bits] \cup [1..2 -> Bits]
IdArrays == {<<>>} \cup [1..1 -> IndexIds] \cup [1..2 -> IndexIds]
Queries == {<<>>, <<0>>, <<1, 0>>}
Ks == {0, 1, 2}
BatchSizes == {0, 1, 2}

NewShard == [items |-> <<>>, version |-> 0, pending |-> <<>>]

NewIndex(dimension, shard_count) ==
    [dimension |-> dimension, shards |-> Array([s \in 1..shard_count |-> NewShard])]

\* std::hash<int64_t> of libstdc++ and libc++: the value itself
StdHash(id) == id

shard_id_for_document_next(idx, id) ==
    IF idx.shards = <<>> THEN 0 ELSE (StdHash(id) + 1) % Len(idx.shards)

\* the shard (counted from 0) an id belongs to
shard_id_for_document(idx, id) ==
    IF idx.shards = <<>> THEN 0 ELSE StdHash(id) % Len(idx.shards)

\* the test without the remainder: !vectors.empty()
validate_vectors_nonempty(d, vectors) == vectors # <<>>

validate_vectors(d, vectors) == vectors # <<>> /\ Len(vectors) % d = 0

ShardSize(shard) == Len(shard.items)

RECURSIVE LogAdds(_, _, _)
LogAdds(ids, i, version) ==
    IF i > Len(ids) THEN <<>>
    ELSE <<[type |-> "ADD", id |-> ids[i], version |-> version]>>
            \o LogAdds(ids, i + 1, version)

\* VectorIndex::add_vectors: <<returned value, shard afterwards>>
VectorIndex_add_vectors(shard, d, vectors, ids) ==
    IF ~validate_vectors(d, vectors) \/ Len(vectors) \div d # Len(ids)
    THEN <<FALSE, shard>>
    ELSE <<TRUE,
           [items   |-> shard.items
                          \o Array([i \in 1..Len(ids) |->
                                      [id |-> ids[i], vec |-> Row(vectors, i - 1, d)]]),
            version |-> shard.version + 1,
            pending |-> shard.pending \o LogAdds(ids, 1, shard.version)]>>

\* a removal that logs and reports whether or not remove_ids removed an entry
VectorIndex_remove_vector_unchecked(shard, id) ==
    <<TRUE,
      [items   |-> SelectSeq(shard.items, LAMBDA e : e.id # id),
       version |-> shard.version + 1,
       pending |-> Append(shard.pending,
                          [type |-> "DELETE", id |-> id, version |-> shard.version])]>>

\* VectorIndex::remove_vector: <<returned value, shard afterwards>>
VectorIndex_remove_vector(shard, id) ==
    LET kept == SelectSeq(shard.items, LAMBDA e : e.id # id)
    IN  IF Len(kept) < Len(shard.items)
        THEN <<TRUE,
               [items   |-> kept,
                version |-> shard.version + 1,
                pending |-> Append(shard.pending,
                                   [type |-> "DELETE", id |-> id,
                                    version |-> shard.version])]>>
        ELSE <<FALSE, shard>>

\* the while loop of VectorIndex::add_vectors_bulk from offset on:
\* <<returned value, shard afterwards>>
RECURSIVE BulkLoop(_, _, _, _, _, _)
BulkLoop(shard, d, vectors, ids, batch_size, offset) ==
    IF offset >= Len(ids) THEN <<TRUE, shard>>
    ELSE LET batch_count == Min(batch_size, Len(ids) - offset)
             r == VectorIndex_add_vectors(shard, d,
                      SubSeq(vectors, offset * d + 1, (offset + batch_count) * d),
                      SubSeq(ids, offset + 1, offset + batch_count))
         IN  IF ~r[1] THEN <<FALSE, r[2]>>
             ELSE BulkLoop(r[2], d, vectors, ids, batch_size, offset + batch_count)

\* VectorIndex::add_vectors_bulk: <<returned value, shard afterwards>>
VectorIndex_add_vectors_bulk(shard, d, vectors, ids, batch_size) ==
    IF batch_size <= 0 THEN <<FALSE, shard>>
    ELSE IF ~validate_vectors(d, vectors) \/ Len(vectors) \div d # Len(ids)
    THEN <<FALSE, shard>>
    ELSE BulkLoop(shard, d, vectors, ids, batch_size, 0)

\* VectorIndex::update_vector: <<returned value, shard afterwards>>
VectorIndex_update_vector(shard, d, id, new_vector) ==
    IF Len(new_vector) # d THEN <<FALSE, shard>>
    ELSE LET removed == VectorIndex_remove_vector(shard, id)
         IN  IF ~removed[1] THEN <<FALSE, shard>>
             ELSE VectorIndex_add_vectors(removed[2], d, new_vector, <<id>>)

\* the positions of the ids that shard_id_for_document sends to shard
RECURSIVE Picked(_, _, _, _)
Picked(idx, ids, shard, i) ==
    IF i > Len(ids) THEN <<>>
    ELSE (IF shard_id_for_document(idx, ids[i]) = shard THEN <<i>> ELSE <<>>)
            \o Picked(idx, ids, shard, i + 1)

RECURSIVE Rows(_, _, _, _)
Rows(vectors, d, picked, j) ==
    IF j > Len(picked) THEN <<>>
    ELSE Row(vectors, picked[j] - 1, d) \o Rows(vectors, d, picked, j + 1)

\* the loop over the shards of Index::add_vectors, from shard on:
\* <<ok, shards afterwards>>; a false ok no longer calls the shard
RECURSIVE AddToShards(_, _, _, _, _, _)
AddToShards(idx, shards, vectors, ids, shard, ok) ==
    IF shard >= Len(shards) THEN <<ok, shards>>
    ELSE LET picked == Picked(idx, ids, shard, 1)
             r == VectorIndex_add_vectors(shards[shard + 1], idx.dimension,
                      Rows(vectors, idx.dimension, picked, 1),
                      Array([j \in 1..Len(picked) |-> ids[picked[j]]]))
         IN  IF picked = <<>> \/ ~ok
             THEN AddToShards(idx, shards, vectors, ids, shard + 1, ok)
             ELSE AddToShards(idx, [shards EXCEPT ![shard + 1] = r[2]],
                              vectors, ids, shard + 1, r[1])

\* Index::add_vectors: <<returned value, index afterwards>>
Index_add_vectors(idx, vectors, ids) ==
    LET d == idx.dimension
    IN  IF ids = <<>> THEN <<FALSE, idx>>
        ELSE IF vectors = <<>> \/ Len(vectors) % d # 0 THEN <<FALSE, idx>>
        ELSE IF Len(vectors) \div d # Len(ids) THEN <<FALSE, idx>>
        ELSE IF Len(idx.shards) = 1
        THEN LET r == VectorIndex_add_vectors(idx.shards[1], d, vectors, ids)
             IN  <<r[1], [idx EXCEPT !.shards[1] = r[2]]>>
        ELSE LET r == AddToShards(idx, idx.shards, vectors, ids, 0, TRUE)
             IN  <<r[1], [idx EXCEPT !.shards = r[2]]>>

\* Index::remove_vector: <<returned value, index afterwards>>
Index_remove_vector(idx, id) ==
    IF idx.shards = <<>> THEN <<FALSE, idx>>
    ELSE LET s == shard_id_for_document(idx, id) + 1
             r == VectorIndex_remove_vector(idx.shards[s], id)
         IN  <<r[1], [idx EXCEPT !.shards[s] = r[2]]>>

\* Index::add_vectors_bulk: <<returned value, index afterwards>>
Index_add_vectors_bulk(idx, vectors, ids, batch_size) ==
    IF batch_size <= 0 THEN <<FALSE, idx>>
    ELSE IF Len(idx.shards) = 1
    THEN LET r == VectorIndex_add_vectors_bulk(idx.shards[1], idx.dimension,
                      vectors, ids, batch_size)
         IN  <<r[1], [idx EXCEPT !.shards[1] = r[2]]>>
    ELSE Index_add_vectors(idx, vectors, ids)

\* Index::update_vector: <<returned value, index afterwards>>
Index_update_vector(idx, id, new_vector) ==
    IF idx.shards = <<>> THEN <<FALSE, idx>>
    ELSE LET s == shard_id_for_document(idx, id) + 1
             r == VectorIndex_update_vector(idx.shards[s], idx.dimension, id, new_vector)
         IN  <<r[1], [idx EXCEPT !.shards[s] = r[2]]>>

Hit(id, distance) == [id |-> id, distance |-> distance]

NoLabel == Hit(-1, FLT_MAX)

Injections(m, n) ==
    {p \in [1..m -> 1..n] : \A i, j \in 1..m : i # j => p[i] # p[j]}

\* faiss::Index::search of one query over the entries of a flat L2 index:
\* k labels with their squared distances, the nearest first, -1 where the
\* index has fewer than k entries; the order among entries at the same
\* distance is the library's
FaissSearch(items, x, d, k) ==
    LET n == Len(items)
        m == Min(k, n)
        dis(i) == L2_distance(items[i].vec, x, d)
        best == {p \in Injections(m, n) :
                    /\ \A i \in 1..(m - 1) : dis(p[i]) <= dis(p[i + 1])
                    /\ \A i \in 1..m : \A j \in 1..n :
                           (\A h \in 1..m : p[h] # j) => dis(p[i]) <= dis(j)}
    IN  {Array([i \in 1..k |->
                  IF i <= m THEN Hit(items[p[i]].id, dis(p[i])) ELSE NoLabel]) :
         p \in best}

\* VectorIndex::search: the result vectors the call can return
VectorIndex_search(shard, d, query, k) ==
    IF ~validate_vectors(d, query) \/ k <= 0 \/ ShardSize(shard) = 0
    THEN {<<>>}
    ELSE {SelectSeq(labels, LAMBDA h : ~(h.id < 0)) :
          labels \in FaissSearch(shard.items, SubSeq(query, 1, d), d, k)}

\* the results of the shards one after the other, in shard order
RECURSIVE Merged(_, _, _, _)
Merged(idx, query, k, s) ==
    IF s > Len(idx.shards) THEN {<<>>}
    ELSE {a \o b : a \in VectorIndex_search(idx.shards[s], idx.dimension, query, k),
                   b \in Merged(idx, query, k, s + 1)}

\* the sort function left the merged results unsorted
std_sort_none(merged) == {merged}

\* std::sort under the comparator a.distance < b.distance: the arrangements
\* of merged in which no hit stands before a nearer one
std_sort(merged) ==
    LET n == Len(merged)
    IN  {Array([i \in 1..n |-> merged[p[i]]]) :
         p \in {q \in Injections(n, n) :
                  \A i \in 1..(n - 1) :
                      merged[q[i]].distance <= merged[q[i + 1]].distance}}

Resize(merged, k) == IF Len(merged) > k THEN SubSeq(merged, 1, k) ELSE merged

\* Index::search: the result vectors the call can return
Index_search(idx, query, k) ==
    IF k <= 0 THEN {<<>>}
    ELSE {Resize(sorted, k) :
          sorted \in UNION {std_sort(m) : m \in Merged(idx, query, k, 1)}}

RECURSIVE SumSizes(_, _)
SumSizes(shards, s) ==
    IF s > Len(shards) THEN 0 ELSE ShardSize(shards[s]) + SumSizes(shards, s + 1)

\* Index::size
Index_size(idx) == SumSizes(idx.shards, 1)

RECURSIVE SumVersions(_, _)
SumVersions(shards, s) ==
    IF s > Len(shards) THEN 0 ELSE shards[s].version + SumVersions(shards, s + 1)

Ops(idx) == SumVersions(idx.shards, 1)

\* ---- the calls ----
AddVectors ==
    \E vectors \in FloatArrays, ids \in IdArrays :
        LET r == Index_add_vectors(index, vectors, ids)
        IN  /\ Index_size(r[2]) <= MaxItems
            /\ Ops(r[2]) <= MaxOps
            /\ index' = r[2]
            /\ call' = [op |-> "add", k |-> 0, ok |-> r[1]]
            /\ result' = <<>>
            /\ UNCHANGED varsIVF
            /\ UNCHANGED varsMT

RemoveVector ==
    \E id \in IndexIds :
        LET r == Index_remove_vector(index, id)
        IN  /\ Ops(r[2]) <= MaxOps
            /\ index' = r[2]
            /\ call' = [op |-> "remove", k |-> 0, ok |-> r[1]]
            /\ result' = <<>>
            /\ UNCHANGED varsIVF
            /\ UNCHANGED varsMT

AddVectorsBulk ==
    \E vectors \in FloatArrays, ids \in IdArrays, batch_size \in BatchSizes :
        LET r == Index_add_vectors_bulk(index, vectors, ids, batch_size)
        IN  /\ Index_size(r[2]) <= MaxItems
            /\ Ops(index) < MaxOps
            /\ index' = r[2]
            /\ call' = [op |-> "add_bulk", k |-> 0, ok |-> r[1]]
            /\ result' = <<>>
            /\ UNCHANGED varsIVF
            /\ UNCHANGED varsMT

UpdateVector ==
    \E id \in IndexIds, new_vector \in FloatArrays :
        LET r == Index_update_vector(index, id, new_vector)
        IN  /\ Ops(index) < MaxOps
            /\ index' = r[2]
            /\ call' = [op |-> "update", k |-> 0, ok |-> r[1]]
            /\ result' = <<>>
            /\ UNCHANGED varsIVF
            /\ UNCHANGED varsMT

SearchIndex ==
    \E query \in Queries, k \in Ks :
        \E hits \in Index_search(index, query, k) :
            /\ result' = hits
            /\ call' = [op |-> "search", k |-> k, ok |-> TRUE]
            /\ UNCHANGED <<index, in_vectors, in_ids, shuffle_rot, ivf, hist, fault,
                   mutex, threads, disk, router, loader, varsSVC>>

SearchShard ==
    \E s \in 1..Len(index.shards), query \in Queries, k \in Ks :
        \E hits \in VectorIndex_search(index.shards[s], index.dimension, query, k) :
            /\ result' = hits
            /\ call' = [op |-> "shard_search", k |-> k, ok |-> TRUE]
            /\ UNCHANGED <<index, in_vectors, in_ids, shuffle_rot, ivf, hist, fault,
                   mutex, threads, disk, router, loader, varsSVC>>

\* no IVF index takes part
IdleIVF ==
    /\ in_vectors = <<>>
    /\ in_ids = <<>>
    /\ shuffle_rot = 0
    /\ ivf = [o \in Objs |-> NewIVF(1, 1, 1)]
    /\ hist = [o \in Objs |-> <<>>]
    /\ fault = "none"

InitIDX ==
    /\ \E d \in IndexDims, shard_count \in 1..MaxIndexShards :
           index = NewIndex(d, shard_count)
    /\ result = <<>>
    /\ call = NoCall

InitIndex == IdleIVF /\ InitIDX /\ IdleMT

NextIndex ==
    \/ AddVectors
    \/ RemoveVector
    \/ SearchIndex
    \/ SearchShard

SpecIndex == InitIndex /\ [][NextIndex]_vars

\* the calls that change an Index, without the searches
NextWrites ==
    \/ AddVectors
    \/ AddVectorsBulk
    \/ RemoveVector
    \/ UpdateVector

SpecWrites == InitIndex /\ [][NextWrites]_vars

(***************************************************************************)
(* Properties of Index and VectorIndex.                                    *)
(***************************************************************************)
NonDecreasing(hits) ==
    \A i \in 1..(Len(hits) - 1) : hits[i].distance <= hits[i + 1].distance

\* C9: a search with k > 0, over the whole index or on one shard, returns at
\* most k hits, and their distances never decrease along the result
C9_AtMostKSorted ==
    (call.op \in {"search", "shard_search"} /\ call.k > 0) =>
        /\ Len(result) <= call.k
        /\ NonDecreasing(result)

\* C9 witness: a search over two shards with entries in both returned k hits
\* at two different distances
C9_Witness ==
    /\ call.op = "search"
    /\ Len(index.shards) = 2
    /\ \A s \in 1..2 : index.shards[s].items # <<>>
    /\ Len(result) = call.k
    /\ \E i \in 1..(Len(result) - 1) : result[i].distance < result[i + 1].distance

\* C10: in the result of Index::search, hits at the same distance stand in
\* ascending order of their ids
C10_TieById ==
    call.op = "search" =>
        \A i \in 1..(Len(result) - 1) :
            result[i].distance = result[i + 1].distance
                => result[i].id <= result[i + 1].id

(***************************************************************************)
(* Part III.  Calls of the free functions and of single member functions.  *)
(* call holds the arguments of the last call, result what it returned.     *)
(***************************************************************************)
KernelDims == {2, 4, 8}
KernelCounts == {1, 2}
Big == 64 * 64

\* a row of d floats: Big at position spike (0: nowhere), 1 at the last
\* ones positions, 0 elsewhere
KernelRow(d, spike, ones) ==
    Array([j \in 1..d |-> IF j = spike THEN Big ELSE IF j > d - ones THEN 1 ELSE 0])

KernelRows(d) == {KernelRow(d, spike, ones) : spike \in 0..d, ones \in 0..d}

Origin(d) == Array([j \in 1..d |-> 0])

KernelCall(op, x, y, d, n) ==
    [op |-> op, k |-> 0, ok |-> TRUE, x |-> x, y |-> y, d |-> d, n |-> n]

\* dann::find_closest(x, y, d, n) on the arguments drawn
FindClosest ==
    /\ call.op = "args"
    /\ call' = [call EXCEPT !.op = "find_closest"]
    /\ result' = <<find_closest(call.x, call.y, call.d, call.n)>>
    /\ UNCHANGED <<index, in_vectors, in_ids, shuffle_rot, ivf, hist, fault,
                   mutex, threads, disk, router, loader, varsSVC>>

\* DistributedIndexIVF::find_closest_optimized(x, y, d, n), the same
FindClosestOptimized ==
    /\ call.op = "args"
    /\ call' = [call EXCEPT !.op = "find_closest_optimized"]
    /\ result' = <<find_closest_optimized(call.x, call.y, call.d, call.n)>>
    /\ UNCHANGED <<index, in_vectors, in_ids, shuffle_rot, ivf, hist, fault,
                   mutex, threads, disk, router, loader, varsSVC>>

\* the arguments: n rows of d floats, against the origin
InitKernel ==
    /\ IdleIVF
    /\ IdleMT
    /\ index = [dimension |-> 1, shards |-> <<>>]
    /\ result = <<>>
    /\ \E d \in KernelDims, n \in KernelCounts :
           \E rows \in [1..n -> KernelRows(d)] :
               call = KernelCall("args", Flatten(rows), Origin(d), d, n)

NextKernel ==
    \/ FindClosest
    \/ FindClosestOptimized

SpecKernel == InitKernel /\ [][NextKernel]_vars

\* C11: find_closest returns the lowest index among the rows at the least
\* distance from y, and find_closest_optimized returns that same index for
\* every input, also on its paths for d = 4 and d = 8
C11_SameClosest ==
    /\ call.op = "find_closest" =>
          LET dis(i) == L2_distance(Row(call.x, i, call.d), call.y, call.d)
              r == result[1]
          IN  /\ r \in 0..(call.n - 1)
              /\ \A i \in 0..(call.n - 1) :
                     dis(r) < dis(i) \/ (dis(r) = dis(i) /\ r <= i)
    /\ call.op = "find_closest_optimized" =>
          result[1] = find_closest(call.x, call.y, call.d, call.n)

\* ---- Clustering::train on its own ----
TrainKs == {2, 3}
TrainExtra == {0, 1}

\* Clustering(d, k).train(vectors, ids) with ids.size() = n >= k
TrainCall ==
    /\ call.op = "train_args"
    /\ call' = [call EXCEPT !.op = "train"]
    /\ result' = Train(call.x, call.n, call.d, call.k, DefaultNredo, call.rot,
                       <<>>, <<>>)
    /\ UNCHANGED <<index, in_vectors, in_ids, shuffle_rot, ivf, hist, fault,
                   mutex, threads, disk, router, loader, varsSVC>>

\* the arguments: k centroids wanted, n = k or k + 1 rows of d floats
InitTrain ==
    /\ IdleIVF
    /\ IdleMT
    /\ index = [dimension |-> 1, shards |-> <<>>]
    /\ result = <<>>
    /\ \E d \in Dims, k \in TrainKs, extra \in TrainExtra, rot \in ShuffleRots :
           \E rows \in [1..(k + extra) -> Points(d)] :
               call = [op |-> "train_args", k |-> k, ok |-> TRUE,
                       x |-> Flatten(Array([i \in 1..(k + extra) |-> Array(rows[i])])),
                       d |-> d, n |-> k + extra, rot |-> rot]

NextTrain == TrainCall

SpecTrain == InitTrain /\ [][NextTrain]_vars

\* how many of the n rows of x are the row p
RowCount(x, d, n, p) == Cardinality({i \in 0..(n - 1) : Row(x, i, d) = p})

\* C12: trained with n = k, the k rows of the centroid table are the n input
\* vectors, each as often as the input holds it
C12_OwnCentroids ==
    (call.op = "train" /\ call.n = call.k) =>
        /\ Len(result) = call.k * call.d
        /\ \A p \in Points(call.d) :
               RowCount(result, call.d, call.k, Array(p))
                   = RowCount(call.x, call.d, call.n, Array(p))

\* the ids a shard holds
ShardIds(shard) == {shard.items[i].id : i \in 1..Len(shard.items)}

\* the places (shard, position) at which the index holds an entry
Places(idx) ==
    UNION {{<<s, i>> : i \in 1..Len(idx.shards[s].items)} : s \in 1..Len(idx.shards)}

Mutations == {"add_vectors", "remove_vector", "reset_index", "load_index"}
Searches == {"search", "search_batch"}
ThreadOps == Mutations \cup Searches \cup {"save_index"}

\* the arguments a thread may call with, per call
ThreadArgs(op) ==
    IF op = "add_vectors"
    THEN {[vectors |-> <<0>>, ids |-> <<1>>], [vectors |-> <<1>>, ids |-> <<2>>]}
    ELSE IF op = "remove_vector" THEN {[id |-> 1]}
    ELSE IF op = "search" THEN {[query |-> <<0>>, k |-> 1]}
    ELSE IF op = "search_batch" THEN {[query |-> <<0, 1>>, k |-> 1]}
    ELSE {[none |-> 0]}

\* a lock that never waits
MutexUnchecked(m) == TRUE

\* std::mutex::lock returns once nobody else holds the mutex
MutexFree(m) == m = 0

\* VectorIndex::reset_index
VectorIndex_reset_index(shard) ==
    [items |-> <<>>, version |-> shard.version + 1, pending |-> <<>>]

\* a load that replaces the entries and leaves version_ as it was
VectorIndex_load_index_same_version(shard, file) ==
    IF file = <<>> THEN <<FALSE, shard>>
    ELSE <<TRUE, [items |-> file[1], version |-> shard.version, pending |-> <<>>]>>

\* VectorIndex::load_index: <<returned value, shard afterwards>>;
\* faiss::read_index throws when there is no file
VectorIndex_load_index(shard, file) ==
    IF file = <<>> THEN <<FALSE, shard>>
    ELSE <<TRUE, [items |-> file[1], version |-> shard.version + 1, pending |-> <<>>]>>

\* VectorIndex::save_index: the file afterwards
VectorIndex_save_index(shard) == <<shard.items>>

\* VectorIndex::search_batch: the result vectors the call can return
RECURSIVE BatchHits(_, _, _, _, _)
BatchHits(shard, d, queries, k, qi) ==
    IF qi * d >= Len(queries) THEN {<<>>}
    ELSE {SelectSeq(labels, LAMBDA h : ~(h.id < 0)) \o rest :
          labels \in FaissSearch(shard.items, SubSeq(queries, qi * d + 1, qi * d + d), d, k),
          rest \in BatchHits(shard, d, queries, k, qi + 1)}

VectorIndex_search_batch(shard, d, queries, k) ==
    IF ~validate_vectors(d, queries) \/ k <= 0 \/ ShardSize(shard) = 0
    THEN {<<>>}
    ELSE BatchHits(shard, d, queries, k, 0)

\* the body of a call: the <<returned value, shard, file>> it can end with
Body(op, arg, shard, d, file) ==
    IF op = "add_vectors"
    THEN LET r == VectorIndex_add_vectors(shard, d, arg.vectors, arg.ids)
         IN  {<<r[1], r[2], file>>}
    ELSE IF op = "remove_vector"
    THEN LET r == VectorIndex_remove_vector(shard, arg.id)
         IN  {<<r[1], r[2], file>>}
    ELSE IF op = "reset_index" THEN {<<TRUE, VectorIndex_reset_index(shard), file>>}
    ELSE IF op = "load_index"
    THEN LET r == VectorIndex_load_index(shard, file)
         IN  {<<r[1], r[2], file>>}
    ELSE IF op = "save_index" THEN {<<TRUE, shard, VectorIndex_save_index(shard)>>}
    ELSE IF op = "search"
    THEN {<<hits, shard, file>> : hits \in VectorIndex_search(shard, d, arg.query, arg.k)}
    ELSE {<<hits, shard, file>> :
          hits \in VectorIndex_search_batch(shard, d, arg.query, arg.k)}

InFlight(op) == Cardinality({t \in Threads : threads[t].op = op})

\* a thread enters a VectorIndex call
ThreadCall(t) ==
    /\ threads[t].pc = "idle"
    /\ \E op \in ThreadOps : \E arg \in ThreadArgs(op) :
           /\ op \in Mutations => index.shards[1].version < MaxOps
           /\ op = "add_vectors" =>
                  ShardSize(index.shards[1]) + InFlight("add_vectors") < MaxItems
           /\ threads' = [threads EXCEPT ![t] = [pc |-> "lock", op |-> op, arg |-> arg]]
    /\ UNCHANGED <<mutex, disk, index, result, call, router, loader, varsSVC>>
    /\ UNCHANGED varsIVF

\* the lock_guard takes the mutex
ThreadLock(t) ==
    /\ threads[t].pc = "lock"
    /\ MutexFree(mutex)
    /\ mutex' = t
    /\ threads' = [threads EXCEPT ![t].pc = "crit"]
    /\ UNCHANGED <<disk, index, result, call, router, loader, varsSVC>>
    /\ UNCHANGED varsIVF

\* the body of the call, under the lock
ThreadBody(t) ==
    /\ threads[t].pc = "crit"
    /\ \E r \in Body(threads[t].op, threads[t].arg, index.shards[1],
                     index.dimension, disk) :
           /\ index' = [index EXCEPT !.shards[1] = r[2]]
           /\ disk' = r[3]
           /\ threads' = [threads EXCEPT ![t] =
                             [pc |-> "unlock", op |-> @.op, ret |-> r[1]]]
    /\ UNCHANGED <<mutex, result, call, router, loader, varsSVC>>
    /\ UNCHANGED varsIVF

\* the lock_guard goes out of scope and the call returns
ThreadUnlock(t) ==
    /\ threads[t].pc = "unlock"
    /\ mutex' = 0
    /\ threads' = [threads EXCEPT ![t] = IdleThread]
    /\ UNCHANGED <<disk, index, result, call, router, loader, varsSVC>>
    /\ UNCHANGED varsIVF

InitThreads ==
    /\ IdleIVF
    /\ IdleMT
    /\ index = NewIndex(1, 1)
    /\ result = <<>>
    /\ call = NoCall

NextThreads ==
    \E t \in Threads :
        \/ ThreadCall(t)
        \/ ThreadLock(t)
        \/ ThreadBody(t)
        \/ ThreadUnlock(t)

SpecThreads == InitThreads /\ [][NextThreads]_vars

\* the thread is inside the critical section of its call
InCrit(t) == threads[t].pc \in {"crit", "unlock"}

\* C14: while a mutation of the shard is in its critical section, no other
\* mutation and no search or search_batch is in its own
C14_OneMutator ==
    \A t, u \in Threads :
        (t # u /\ InCrit(t) /\ threads[t].op \in Mutations
               /\ threads[u].op \in Mutations \cup Searches)
            => ~InCrit(u)

\* C14 witness: a mutation holds the shard while a search and nothing else
\* waits for the lock
C14_Witness ==
    \E t, u \in Threads :
        /\ threads[t].pc = "crit"
        /\ threads[t].op = "add_vectors"
        /\ mutex = t
        /\ threads[u].pc = "lock"
        /\ threads[u].op = "search"
        /\ index.shards[1].items # <<>>

(***************************************************************************)
(* DistributedIndexIVF::search (distributed_index_ivf.cpp 172-178).  The   *)
(* function clamps nprobe and then reaches its closing brace without a     *)
(* return statement: what the caller receives is not defined.  The call    *)
(* either ends the process or hands back some vector.                      *)
(***************************************************************************)
Nprobes == {-1, 0, 1, 8, 9}
ReturnedAtBrace == {<<>>, <<Hit(0, 0)>>}

\* if (nprobe > global_centroid_ids_.size()) nprobe = size: the int is
\* compared as an unsigned value, a negative nprobe is above every size
ClampNprobe(nprobe, size) ==
    IF nprobe < 0 \/ nprobe > size THEN size ELSE nprobe

\* the shards that do not answer during a search: none or one of them
Unavailable(obj) == {{}} \cup {{s} : s \in 0..(obj.shard_counts - 1)}

\* down are the shards that are unavailable during the call; the function
\* contacts no shard and builds no response, so the call carries no status
\* and names no missing shard
SearchIVF(o) ==
    /\ fault = "none"
    /\ call.op = "none"
    /\ \E nprobe \in Nprobes, dies \in BOOLEAN, hits \in ReturnedAtBrace,
          down \in Unavailable(ivf[o]) :
           /\ call' = [op |-> "ivf_search", k |-> 1, ok |-> ~dies,
                       nprobe |-> nprobe,
                       width |-> ClampNprobe(nprobe, Len(ivf[o].global_centroid_ids)),
                       status |-> "none",
                       down |-> down,
                       missing |-> {}]
           /\ fault' = IF dies THEN "segv" ELSE fault
           /\ result' = IF dies THEN <<>> ELSE hits
    /\ UNCHANGED <<in_vectors, in_ids, shuffle_rot, ivf, hist, index>>
    /\ UNCHANGED varsMT

\* builds, then one search
NextSearch ==
    \/ call.op = "none" /\ BuildOptimized("a", 1)
    \/ call.op = "none" /\ BuildIndex("a", 1)
    \/ SearchIVF("a")

SpecSearch == Init /\ [][NextSearch]_vars

\* C15: is_trained only changes from false to true, in a build that
\* completes; a search of an index that is not trained reports InvalidState
\* and returns no hits
C15_InvalidState ==
    [][/\ \A o \in Objs :
              ivf'[o].is_trained # ivf[o].is_trained =>
                  (~ivf[o].is_trained /\ Len(hist'[o]) = Len(hist[o]) + 1)
       /\ (call'.op = "ivf_search" /\ call.op = "none" /\ ~ivf["a"].is_trained) =>
              (/\ call'.status = "InvalidState"
               /\ result' = <<>>
               /\ fault' = "none")]_vars

\* C16: a search of an index whose build completed probes
\* min(nprobe, k) lists, k the number of trained centroids
C16_NprobeClamp ==
    [][(/\ call'.op = "ivf_search"
        /\ call.op = "none"
        /\ hist["a"] # <<>>
        /\ call'.nprobe >= 0) =>
           call'.width = Min(call'.nprobe,
                             Len(ivf["a"].global_centroids) \div ivf["a"].dimension)]_vars

\* C28: a search during which one shard is unavailable does not fail: it
\* returns at most k hits and its response carries the PartialResult marker
\* naming that shard
C28_PartialResult ==
    (call.op = "ivf_search" /\ call.down # {}) =>
        (/\ fault = "none"
         /\ call.ok
         /\ Len(result) <= call.k
         /\ call.status = "PartialResult"
         /\ call.missing = call.down)

\* ---------------------------------------------------------------------
\* The constructor of DistributedIndexIVF (distributed_index_ivf.cpp 31-40)
\* ---------------------------------------------------------------------

NodeNames == {"n1", "n2"}
NodeCounts == 0..3
NodeLists == UNION {[1..c -> NodeNames] : c \in NodeCounts}
ShardCounts == -1..2
ConstructSizes == {1, 4}

\* an int compared with a size_t: the int is converted, a negative one to a
\* value above every size
GeSizeT(i, size) == i < 0 \/ i >= size

\* the parameter nodes after nodes_(std::move(nodes)): the move constructor
\* of std::vector leaves its source empty
MovedFrom(nodes) == <<>>

\* assert(shard_counts_ >= nodes.size() && shard_counts_ > 0), nodes being
\* the parameter the initialiser list has moved from
ConstructorAssert(shards, nodes) ==
    GeSizeT(shards, Len(MovedFrom(nodes))) /\ shards > 0

\* the node of shard i: nodes_[i % node_size]
NodeOfShard(nodes, i) == nodes[(i % Len(nodes)) + 1]

\* shards_[i] = IndexIVFShard(i, nodes_[i % node_size]) for i < shard_counts_
Placement(nodes, shards) == [j \in 1..shards |-> NodeOfShard(nodes, j - 1)]

\* what a shard gets when i % 0 yields a value and nodes_[...] is read from
\* an empty vector
JunkNodes == {"?"}

ConstructCall(op, d, n, shards, nodes, ok) ==
    [op |-> op, k |-> 0, ok |-> ok, d |-> d, n |-> n, shards |-> shards, nodes |-> nodes]

\* a = DistributedIndexIVF(name, d, n, shards, nodes)
Construct(o) ==
    /\ call.op = "args"
    /\ fault = "none"
    /\ LET d == call.d
           n == call.n
           shards == call.shards
           nodes == call.nodes
       IN  IF ~ConstructorAssert(shards, nodes)
           THEN /\ fault' = "assert"
                /\ call' = ConstructCall("constructor", d, n, shards, nodes, FALSE)
                /\ result' = <<>>
                /\ ivf' = ivf
           ELSE IF Len(nodes) = 0
           THEN \E dies \in BOOLEAN, junk \in JunkNodes :
                    /\ fault' = IF dies THEN "fpe" ELSE "oob"
                    /\ call' = ConstructCall("constructor", d, n, shards, nodes, ~dies)
                    /\ result' = IF dies THEN <<>> ELSE [j \in 1..shards |-> junk]
                    /\ ivf' = IF dies THEN ivf ELSE [ivf EXCEPT ![o] = NewIVF(d, n, shards)]
           ELSE /\ fault' = fault
                /\ call' = ConstructCall("constructor", d, n, shards, nodes, TRUE)
                /\ result' = Placement(nodes, shards)
                /\ ivf' = [ivf EXCEPT ![o] = NewIVF(d, n, shards)]
    /\ UNCHANGED <<in_vectors, in_ids, shuffle_rot, hist, index>>
    /\ UNCHANGED varsMT

\* the arguments of one constructor call
InitConstruct ==
    /\ IdleIVF
    /\ IdleMT
    /\ index = [dimension |-> 1, shards |-> <<>>]
    /\ result = <<>>
    /\ \E d \in Dims, n \in ConstructSizes, shards \in ShardCounts, nodes \in NodeLists :
           call = ConstructCall("args", d, n, shards, nodes, FALSE)

NextConstruct == Construct("a")

SpecConstruct == InitConstruct /\ [][NextConstruct]_vars

\* C17: a construction that is accepted, and every construction that places
\* a shard on a node, has shard_count > 0 and 0 < nodes.size() <= shard_count
C17_ConstructorCheck ==
    (call.op = "constructor" /\ (call.ok \/ result # <<>>)) =>
        (/\ call.shards > 0
         /\ 0 < Len(call.nodes)
         /\ Len(call.nodes) <= call.shards)

\* ---------------------------------------------------------------------
\* get_nlist (distributed_index_ivf.cpp 17-29) as a call of its own
\* ---------------------------------------------------------------------

\* the expected sizes of the calls: the small ones, and the values around
\* the thresholds of the table
SmallSizes == 0..64
Million == 1000 * 1000
ThresholdSizes ==
    {Million - 1, Million, 10 * Million - 1, 10 * Million,
     100 * Million - 1, 100 * Million, 1000 * Million - 1, 1000 * Million,
     1000 * Million + 1, 2000 * Million}
NlistSizes == SmallSizes \cup ThresholdSizes \cup {99, 100, 2500, 123456}

NlistCall(op, N) == [op |-> op, k |-> 0, ok |-> TRUE, N |-> N]

\* r = get_nlist(N)
GetNlist ==
    /\ call.op = "args"
    /\ call' = NlistCall("get_nlist", call.N)
    /\ result' = <<get_nlist(call.N)>>
    /\ UNCHANGED <<in_vectors, in_ids, shuffle_rot, ivf, hist, fault, index>>
    /\ UNCHANGED varsMT

InitNlist ==
    /\ IdleIVF
    /\ IdleMT
    /\ index = [dimension |-> 1, shards |-> <<>>]
    /\ result = <<>>
    /\ \E N \in NlistSizes : call = NlistCall("args", N)

NextNlist == GetNlist

SpecNlist == InitNlist /\ [][NextNlist]_vars

\* C18: get_nlist(N) is floor(8 * sqrt(N)) below 10^6 (the r with
\* r^2 <= 64 N < (r + 1)^2), 65536 below 10^7, 262144 below 10^8,
\* 1048576 below 10^9, and N from 10^9 on
C18_NlistTable ==
    call.op = "get_nlist" =>
        LET N == call.N
            r == result[1]
        IN  /\ N < Million =>
                (r >= 0 /\ r * r <= 64 * N /\ 64 * N < (r + 1) * (r + 1))
            /\ (Million <= N /\ N < 10 * Million) => r = 65536
            /\ (10 * Million <= N /\ N < 100 * Million) => r = 262144
            /\ (100 * Million <= N /\ N < 1000 * Million) => r = 1048576
            /\ N >= 1000 * Million => r = N

\* get_nlist was called with N = 999999, just below the first threshold, and
\* returned 7999 = floor(8 * 999.9995)
C18_Witness ==
    /\ call.op = "get_nlist"
    /\ call.N = Million - 1
    /\ result = <<7999>>

\* ---------------------------------------------------------------------
\* One VectorIndex called by one caller (vector_index.cpp)
\* ---------------------------------------------------------------------

ShardCall(op, ok, nv, ni, batch_size, id) ==
    [op |-> op, k |-> 0, ok |-> ok, nv |-> nv, ni |-> ni,
     batch_size |-> batch_size, id |-> id]

\* the arguments of the calls: no, one or two floats, and no, one or two ids,
\* the same id twice among them
ShardFloatArrays == {<<>>, <<0>>, <<0, 1>>}
ShardIdArrays == {<<>>, <<1>>, <<2>>, <<1, 2>>, <<1, 1>>}

\* the one VectorIndex of the calls below
TheShard(idx) == idx.shards[1]

\* the calls stop at MaxItems entries and MaxOps successful mutations
ShardInBounds(shard) == ShardSize(shard) <= MaxItems /\ shard.version <= MaxOps

\* ok = shard.add_vectors(vectors, ids)
ShardAdd ==
    \E vectors \in ShardFloatArrays, ids \in ShardIdArrays :
        LET r == VectorIndex_add_vectors(TheShard(index), index.dimension, vectors, ids)
        IN  /\ ShardInBounds(r[2])
            /\ index' = [index EXCEPT !.shards[1] = r[2]]
            /\ call' = ShardCall("shard_add", r[1], Len(vectors), Len(ids), 0, 0)
            /\ result' = <<>>
            /\ UNCHANGED varsIVF
            /\ UNCHANGED varsMT

\* ok = shard.add_vectors_bulk(vectors, ids, batch_size)
ShardAddBulk ==
    \E vectors \in ShardFloatArrays, ids \in ShardIdArrays, batch_size \in BatchSizes \cup {-1} :
        LET r == VectorIndex_add_vectors_bulk(TheShard(index), index.dimension,
                                              vectors, ids, batch_size)
        IN  /\ ShardInBounds(r[2])
            /\ index' = [index EXCEPT !.shards[1] = r[2]]
            /\ call' = ShardCall("shard_add_bulk", r[1], Len(vectors), Len(ids), batch_size, 0)
            /\ result' = <<>>
            /\ UNCHANGED varsIVF
            /\ UNCHANGED varsMT

\* ok = shard.remove_vector(id)
ShardRemove ==
    \E id \in IndexIds :
        LET r == VectorIndex_remove_vector(TheShard(index), id)
        IN  /\ ShardInBounds(r[2])
            /\ index' = [index EXCEPT !.shards[1] = r[2]]
            /\ call' = ShardCall("shard_remove", r[1], 0, 0, 0, id)
            /\ result' = <<>>
            /\ UNCHANGED varsIVF
            /\ UNCHANGED varsMT

InitShard ==
    /\ IdleIVF
    /\ IdleMT
    /\ \E d \in IndexDims : index = NewIndex(d, 1)
    /\ result = <<>>
    /\ call = NoCall

NextShard ==
    \/ ShardAdd
    \/ ShardAddBulk
    \/ ShardRemove

SpecShard == InitShard /\ [][NextShard]_vars

\* the arguments of the call are not a batch of whole d-dimensional
\* vectors with one id each
BadBatch(d, nv, ni) == nv = 0 \/ nv % d # 0 \/ nv \div d # ni

\* C19: add_vectors called with no vectors, with a number of floats that is
\* not a multiple of d, or with a number of ids other than the number of
\* vectors returns false and leaves size, version and the pending log as
\* they were; so does add_vectors_bulk, also when batch_size <= 0
C19_RejectsBadBatch ==
    [][(\/ /\ call'.op \in {"shard_add", "shard_add_bulk"}
           /\ BadBatch(index.dimension, call'.nv, call'.ni)
        \/ /\ call'.op = "shard_add_bulk"
           /\ call'.batch_size <= 0) =>
           (/\ ~call'.ok
            /\ ShardSize(TheShard(index')) = ShardSize(TheShard(index))
            /\ TheShard(index').version = TheShard(index).version
            /\ TheShard(index').pending = TheShard(index).pending)]_vars

\* a shard that holds an entry has just refused a bulk add of a float count
\* that is not a multiple of d = 2, with a positive batch size
C19_Witness ==
    /\ call.op = "shard_add_bulk"
    /\ ~call.ok
    /\ call.batch_size > 0
    /\ index.dimension = 2
    /\ call.nv = 1
    /\ ShardSize(TheShard(index)) > 0
    /\ TheShard(index).version > 0

\* how often id is stored in the shard
StoredCount(shard, id) == Len(SelectSeq(shard.items, LAMBDA e : e.id = id))

ShardOpsInBounds(shard) ==
    ShardSize(shard) <= MaxItems /\ shard.version <= MaxOps + 1

\* ok = shard.update_vector(id, new_vector)
ShardUpdate ==
    \E id \in IndexIds, new_vector \in ShardFloatArrays :
        LET r == VectorIndex_update_vector(TheShard(index), index.dimension, id, new_vector)
        IN  /\ ShardOpsInBounds(r[2])
            /\ index' = [index EXCEPT !.shards[1] = r[2]]
            /\ call' = [op |-> "shard_update", k |-> 0, ok |-> r[1], id |-> id,
                        new_vector |-> new_vector]
            /\ result' = <<>>
            /\ UNCHANGED varsIVF
            /\ UNCHANGED varsMT

\* get_version() at the last save_index, if the call before this one was
\* op and carried it on; -1 otherwise
SavedVersion(op) == IF call.op = op THEN call.saved ELSE -1

\* shard.reset_index()
ShardReset ==
    LET after == VectorIndex_reset_index(TheShard(index))
    IN  /\ ShardOpsInBounds(after)
        /\ index' = [index EXCEPT !.shards[1] = after]
        /\ call' = [op |-> "shard_reset", k |-> 0, ok |-> TRUE,
                    saved |-> SavedVersion("shard_save")]
        /\ result' = <<>>
        /\ UNCHANGED varsIVF
        /\ UNCHANGED varsMT

\* ok = shard.save_index(file_path)
ShardSave ==
    /\ disk' = VectorIndex_save_index(TheShard(index))
    /\ call' = [op |-> "shard_save", k |-> 0, ok |-> TRUE,
                saved |-> TheShard(index).version]
    /\ result' = <<>>
    /\ UNCHANGED <<index, mutex, threads, router, loader, varsSVC>>
    /\ UNCHANGED varsIVF

\* ok = shard.load_index(file_path)
ShardLoad ==
    LET r == VectorIndex_load_index(TheShard(index), disk)
    IN  /\ ShardOpsInBounds(r[2])
        /\ index' = [index EXCEPT !.shards[1] = r[2]]
        /\ call' = [op |-> "shard_load", k |-> 0, ok |-> r[1],
                    saved |-> SavedVersion("shard_reset")]
        /\ result' = <<>>
        /\ UNCHANGED varsIVF
        /\ UNCHANGED varsMT

SearchKs == Ks \cup {-1}

\* hits = shard.search(query, k)
ShardSearchOne ==
    \E query \in Queries, k \in SearchKs :
        \E hits \in VectorIndex_search(TheShard(index), index.dimension, query, k) :
            /\ result' = hits
            /\ call' = [op |-> "shard_search_one", k |-> k, ok |-> TRUE, nq |-> Len(query)]
            /\ UNCHANGED index
            /\ UNCHANGED varsIVF
            /\ UNCHANGED varsMT

\* hits = shard.search_batch(queries, k)
ShardSearchBatch ==
    \E queries \in Queries, k \in SearchKs :
        \E hits \in VectorIndex_search_batch(TheShard(index), index.dimension, queries, k) :
            /\ result' = hits
            /\ call' = [op |-> "shard_search_batch", k |-> k, ok |-> TRUE, nq |-> Len(queries)]
            /\ UNCHANGED index
            /\ UNCHANGED varsIVF
            /\ UNCHANGED varsMT

NextShardOps ==
    \/ ShardAdd
    \/ ShardRemove
    \/ ShardUpdate
    \/ ShardReset
    \/ ShardSave
    \/ ShardLoad
    \/ ShardSearchOne
    \/ ShardSearchBatch

SpecShardOps == InitShard /\ [][NextShardOps]_vars

\* the vectors stored for id, in storage order
VectorsOf(shard, id) ==
    LET es == SelectSeq(shard.items, LAMBDA e : e.id = id)
    IN  [i \in 1..Len(es) |-> es[i].vec]

\* C21: update_vector(id, v) of an id that is not stored, or with a v of a
\* length other than d, returns false and leaves size, the vectors of id and
\* the version as they were; of a stored id with a v of length d it returns
\* true, leaves size as it was and stores id with v
C21_UpdateVector ==
    [][call'.op = "shard_update" =>
           LET before == TheShard(index)
               after == TheShard(index')
               id == call'.id
               v == call'.new_vector
           IN  IF StoredCount(before, id) = 0 \/ Len(v) # index.dimension
               THEN /\ ~call'.ok
                    /\ ShardSize(after) = ShardSize(before)
                    /\ VectorsOf(after, id) = VectorsOf(before, id)
                    /\ after.version = before.version
               ELSE /\ call'.ok
                    /\ ShardSize(after) = ShardSize(before)
                    /\ VectorsOf(after, id) = <<v>>]_vars

\* C22: after reset_index the shard is empty and its version is 0
C22_ResetIndex ==
    call.op = "shard_reset" =>
        (ShardSize(TheShard(index)) = 0 /\ TheShard(index).version = 0)

\* C23: a successful add_vectors, remove_vector or load_index ends with a
\* greater version and a failed one with the same version; a successful
\* load_index that follows save_index and reset_index ends with a version
\* above the one at the save
C23_VersionGrows ==
    [][LET before == TheShard(index).version
           after == TheShard(index').version
       IN  /\ call'.op \in {"shard_add", "shard_remove", "shard_load"} =>
                  IF call'.ok THEN after > before ELSE after = before
           /\ (call'.op = "shard_load" /\ call'.ok /\ call'.saved >= 0) =>
                  after > call'.saved]_vars

\* a shard with an entry was saved at version 1, reset, and loaded from the
\* file: the entry is back, the log is empty and the version is 3
C23_Witness ==
    /\ call.op = "shard_load"
    /\ call.ok
    /\ call.saved = 1
    /\ ShardSize(TheShard(index)) > 0
    /\ TheShard(index).version = 3
    /\ TheShard(index).pending = <<>>

\* C24: search returns no hit when the shard is empty, when k <= 0 or when
\* the query has a length other than d; search_batch returns no hit for a
\* buffer whose length is not a multiple of d
C24_SearchRejects ==
    /\ (/\ call.op = "shard_search_one"
        /\ \/ ShardSize(TheShard(index)) = 0
           \/ call.k <= 0
           \/ call.nq # index.dimension) => result = <<>>
    /\ (/\ call.op = "shard_search_batch"
        /\ call.nq % index.dimension # 0) => result = <<>>

(***************************************************************************)
(* core/consistency_manager.cpp                                            *)
(***************************************************************************)
IndexOperation(type, id, version) == [type |-> type, id |-> id, version |-> version]

\* the loop of last_writer_wins from position i on: the index of latest
RECURSIVE LatestScan(_, _, _)
LatestScan(operations, i, latest) ==
    IF i > Len(operations) THEN latest
    ELSE IF operations[i].version > operations[latest].version
         THEN LatestScan(operations, i + 1, i)
         ELSE LatestScan(operations, i + 1, latest)

\* the loop with >= in place of >: the last of the operations at the
\* greatest version
RECURSIVE LatestScanLast(_, _, _)
LatestScanLast(operations, i, latest) ==
    IF i > Len(operations) THEN latest
    ELSE IF operations[i].version >= operations[latest].version
         THEN LatestScanLast(operations, i + 1, i)
         ELSE LatestScanLast(operations, i + 1, latest)

\* last_writer_wins with that loop
last_writer_wins_last(operations) ==
    IF operations = <<>> THEN IndexOperation("ADD", -1, 0)
    ELSE operations[LatestScanLast(operations, 1, 1)]

\* ConsistencyManager::last_writer_wins
last_writer_wins(operations) ==
    IF operations = <<>> THEN IndexOperation("ADD", -1, 0)
    ELSE operations[LatestScan(operations, 1, 1)]

\* ConsistencyManager::resolve_conflict
resolve_conflict(operations) == last_writer_wins(operations)

ConflictLens == 0..3
ConflictVersions == {0, 1, 2}
ConflictOps ==
    {IndexOperation(t, i, v) : t \in {"ADD", "UPDATE"}, i \in IndexIds, v \in ConflictVersions}
ConflictLists == UNION {[1..n -> ConflictOps] : n \in ConflictLens}

\* resolved = consistency_manager.resolve_conflict(operations)
ResolveConflict ==
    /\ call.op = "args"
    /\ call' = [op |-> "resolve_conflict", k |-> 0, ok |-> TRUE,
                operations |-> call.operations]
    /\ result' = <<resolve_conflict(call.operations)>>
    /\ UNCHANGED <<index>>
    /\ UNCHANGED varsIVF
    /\ UNCHANGED varsMT

InitResolve ==
    /\ IdleIVF
    /\ IdleMT
    /\ index = [dimension |-> 1, shards |-> <<>>]
    /\ result = <<>>
    /\ \E operations \in ConflictLists :
           call = [op |-> "args", k |-> 0, ok |-> FALSE, operations |-> operations]

NextResolve == ResolveConflict

SpecResolve == InitResolve /\ [][NextResolve]_vars

\* C25: resolve_conflict of a non-empty list returns the first element of
\* the list that carries the greatest version of the list; of an empty list
\* it returns an operation with id -1 and version 0
C25_LastWriterWins ==
    call.op = "resolve_conflict" =>
        LET ops == call.operations
            r == result[1]
        IN  IF ops = <<>> THEN r.id = -1 /\ r.version = 0
            ELSE \E i \in 1..Len(ops) :
                     /\ r = ops[i]
                     /\ \A j \in 1..Len(ops) : ops[j].version <= ops[i].version
                     /\ \A j \in 1..(i - 1) : ops[j].version < ops[i].version
                     /\ \A j \in 1..(i - 1) : ops[j] # r

\* a list of three operations, the last two of them at the greatest
\* version and with different ids, was resolved to the second
C25_Witness ==
    /\ call.op = "resolve_conflict"
    /\ Len(call.operations) = 3
    /\ call.operations[1].version < call.operations[2].version
    /\ call.operations[2].version = call.operations[3].version
    /\ call.operations[2].id # call.operations[3].id
    /\ result = <<call.operations[2]>>

(***************************************************************************)
(* core/query_router.cpp                                                   *)
(***************************************************************************)
MaxQueries == 3
RouterQueries == {<<0>>, <<1>>}
RouterKs == {1, 2}

\* QueryRouter::generate_cache_key: "k:" and the floats of the query, each
\* printed with std::to_string and followed by a comma; the queries of the
\* model are whole numbers, which print as different strings
generate_cache_key(query_vector, k) == <<k>> \o query_vector

\* QueryRouter::get_cached_result: whether a response is cached for the key
\* (a cached response has success set, a miss is QueryResponse(false, ""))
get_cached_result(r, query_vector, k) ==
    generate_cache_key(query_vector, k) \in r.query_cache

\* QueryRouter::cache_result
cache_result(r, query_vector, k) ==
    [r EXCEPT !.query_cache = @ \cup {generate_cache_key(query_vector, k)}]

\* the metrics block of execute_query
CountQuery(r) ==
    [r EXCEPT !.metrics.total_queries = @ + 1,
              !.metrics.successful_queries = @ + 1]

\* QueryRouter::execute_query: the router afterwards
execute_query(r, query_vector, k) ==
    IF r.caching_enabled /\ get_cached_result(r, query_vector, k)
    THEN r
    ELSE IF r.caching_enabled
    THEN cache_result(CountQuery(r), query_vector, k)
    ELSE CountQuery(r)

\* response = router.execute_query(request)
ExecuteQuery ==
    /\ router.calls < MaxQueries
    /\ \E query_vector \in RouterQueries, k \in RouterKs :
           /\ router' = [execute_query(router, query_vector, k) EXCEPT !.calls = @ + 1]
           /\ call' = [op |-> "execute_query", k |-> k, ok |-> TRUE,
                       hit |-> router.caching_enabled
                               /\ get_cached_result(router, query_vector, k)]
    /\ UNCHANGED <<index, result, mutex, threads, disk, loader, varsSVC>>
    /\ UNCHANGED varsIVF

\* router.enable_caching(enable)
EnableCaching ==
    /\ \E enable \in BOOLEAN :
           router' = [router EXCEPT !.caching_enabled = enable]
    /\ call' = [op |-> "enable_caching", k |-> 0, ok |-> TRUE]
    /\ UNCHANGED <<index, result, mutex, threads, disk, loader, varsSVC>>
    /\ UNCHANGED varsIVF

\* router.reset_metrics()
ResetMetrics ==
    /\ router' = [router EXCEPT !.metrics = NewRouter.metrics, !.calls = 0]
    /\ call' = [op |-> "reset_metrics", k |-> 0, ok |-> TRUE]
    /\ UNCHANGED <<index, result, mutex, threads, disk, loader, varsSVC>>
    /\ UNCHANGED varsIVF

InitRouter ==
    /\ IdleIVF
    /\ IdleMT
    /\ IdleIDX

NextRouter ==
    \/ ExecuteQuery
    \/ EnableCaching
    \/ ResetMetrics

SpecRouter == InitRouter /\ [][NextRouter]_vars

\* C26: total_queries is the number of execute_query calls since the last
\* reset_metrics, and successful_queries + failed_queries = total_queries
C26_EveryQueryCounted ==
    /\ router.metrics.total_queries = router.calls
    /\ router.metrics.successful_queries + router.metrics.failed_queries
           = router.metrics.total_queries

(***************************************************************************)
(* core/bulk_loader.cpp                                                    *)
(***************************************************************************)
MaxLoads == 2
LoadBatchSizes == {0, 1, 2}

\* BulkLoader::validate_vectors (index_ is set)
BulkLoader_validate_vectors(d, vectors, ids) ==
    IF vectors = <<>> \/ ids = <<>> THEN FALSE
    ELSE IF Len(vectors) % d # 0 THEN FALSE
    ELSE Len(vectors) \div d = Len(ids)

\* a metrics block that adds the ids of every load, failed or not
CountLoadAlways(l, success, nids) ==
    [l EXCEPT !.metrics.total_loads = @ + 1,
              !.metrics.successful_loads = IF success THEN @ + 1 ELSE @,
              !.metrics.failed_loads = IF success THEN @ ELSE @ + 1,
              !.metrics.total_vectors_loaded = @ + nids]

\* the metrics block of load_vectors_sync, after add_vectors_bulk returned
\* success (and, with success false and nids 0, after a failed validation)
CountLoad(l, success, nids) ==
    [l EXCEPT !.metrics.total_loads = @ + 1,
              !.metrics.successful_loads = IF success THEN @ + 1 ELSE @,
              !.metrics.failed_loads = IF success THEN @ ELSE @ + 1,
              !.metrics.total_vectors_loaded = IF success THEN @ + nids ELSE @]

\* the ids of the loads that are under way
RECURSIVE IdsInFlight(_)
IdsInFlight(ts) ==
    IF ts = {} THEN 0
    ELSE LET t == CHOOSE u \in ts : TRUE
         IN  (IF threads[t].op = "load" THEN Len(threads[t].ids) ELSE 0)
             + IdsInFlight(ts \ {t})

LoadsInFlight == Cardinality({t \in Threads : threads[t].op = "load"})

\* a thread enters load_vectors_sync(request), directly or from the
\* std::async of load_vectors
LoadCall(t) ==
    /\ threads[t].pc = "idle"
    /\ Len(loader.returned) + LoadsInFlight < MaxLoads
    /\ \E vectors \in ShardFloatArrays, ids \in ShardIdArrays, batch_size \in LoadBatchSizes :
           /\ ShardSize(TheShard(index)) + IdsInFlight(Threads) + Len(ids) <= MaxItems
           /\ threads' = [threads EXCEPT ![t] =
                             [pc |-> "validate", op |-> "load", vectors |-> vectors,
                              ids |-> ids, batch_size |-> batch_size, offset |-> 0,
                              success |-> FALSE, added |-> 0]]
    /\ UNCHANGED <<index, result, call, mutex, disk, router, loader, varsSVC>>
    /\ UNCHANGED varsIVF

\* if (!validate_vectors(request.vectors, request.ids))
LoadValidate(t) ==
    /\ threads[t].pc = "validate"
    /\ threads' = [threads EXCEPT ![t].pc =
                      IF BulkLoader_validate_vectors(index.dimension,
                                                     threads[t].vectors, threads[t].ids)
                      THEN "bulk" ELSE "count"]
    /\ UNCHANGED <<index, result, call, mutex, disk, router, loader, varsSVC>>
    /\ UNCHANGED varsIVF

\* index_->add_vectors_bulk: its checks on entry, then one add_vectors per
\* batch, each under the mutex of the index
LoadBatch(t) ==
    /\ threads[t].pc = "bulk"
    /\ LET th == threads[t]
           d == index.dimension
           total == Len(th.ids)
           rejected == \/ th.batch_size <= 0
                       \/ ~validate_vectors(d, th.vectors)
                       \/ Len(th.vectors) \div d # total
           batch_count == Min(th.batch_size, total - th.offset)
           r == VectorIndex_add_vectors(TheShard(index), d,
                    SubSeq(th.vectors, th.offset * d + 1, (th.offset + batch_count) * d),
                    SubSeq(th.ids, th.offset + 1, th.offset + batch_count))
       IN  IF th.offset = 0 /\ rejected
           THEN /\ threads' = [threads EXCEPT ![t].pc = "count", ![t].success = FALSE]
                /\ index' = index
           ELSE /\ index' = [index EXCEPT !.shards[1] = r[2]]
                /\ threads' = [threads EXCEPT ![t] =
                      [th EXCEPT !.offset = IF r[1] THEN @ + batch_count ELSE @,
                                 !.added = IF r[1] THEN @ + batch_count ELSE @,
                                 !.success = r[1] /\ th.offset + batch_count >= total,
                                 !.pc = IF r[1] /\ th.offset + batch_count < total
                                        THEN "bulk" ELSE "count"]]
    /\ UNCHANGED <<result, call, mutex, disk, router, loader, varsSVC>>
    /\ UNCHANGED varsIVF

\* the metrics block, under metrics_mutex_
LoadCount(t) ==
    /\ threads[t].pc = "count"
    /\ loader' = CountLoad(loader, threads[t].success, Len(threads[t].ids))
    /\ threads' = [threads EXCEPT ![t].pc = "return"]
    /\ UNCHANGED <<index, result, call, mutex, disk, router, varsSVC>>
    /\ UNCHANGED varsIVF

\* load_vectors_sync returns success
LoadReturn(t) ==
    /\ threads[t].pc = "return"
    /\ loader' = [loader EXCEPT !.returned =
                     Append(@, [ok |-> threads[t].success,
                                nv |-> Len(threads[t].vectors),
                                ni |-> Len(threads[t].ids),
                                added |-> threads[t].added])]
    /\ threads' = [threads EXCEPT ![t] = IdleThread]
    /\ UNCHANGED <<index, result, call, mutex, disk, router, varsSVC>>
    /\ UNCHANGED varsIVF

NextLoader ==
    \E t \in Threads :
        \/ LoadCall(t)
        \/ LoadValidate(t)
        \/ LoadBatch(t)
        \/ LoadCount(t)
        \/ LoadReturn(t)

SpecLoader == InitShard /\ [][NextLoader]_vars

\* the ids of the successful loads among the first n that returned
RECURSIVE IdsLoaded(_, _)
IdsLoaded(returned, n) ==
    IF n = 0 THEN 0
    ELSE IdsLoaded(returned, n - 1) + (IF returned[n].ok THEN returned[n].ni ELSE 0)

FailedLoads(returned) == Len(SelectSeq(returned, LAMBDA e : ~e.ok))

\* C27: total_loads = successful_loads + failed_loads; once every load has
\* returned, total_vectors_loaded is the number of ids of the successful
\* loads and failed_loads the number of the failed ones; a load with no
\* data or with vectors.size() # ids.size() * d returned false and added
\* nothing to the index
C27_LoadMetrics ==
    LET m == loader.metrics
    IN  /\ m.total_loads = m.successful_loads + m.failed_loads
        /\ (\A t \in Threads : threads[t].pc = "idle") =>
               /\ m.total_vectors_loaded = IdsLoaded(loader.returned, Len(loader.returned))
               /\ m.failed_loads = FailedLoads(loader.returned)
               /\ m.total_loads = Len(loader.returned)
        /\ \A i \in 1..Len(loader.returned) :
               LET e == loader.returned[i]
               IN  (e.nv = 0 \/ e.ni = 0 \/ e.nv # e.ni * index.dimension) =>
                       (~e.ok /\ e.added = 0)

\* two loads have returned, a successful one of two ids and a failed one
\* with data of the wrong size; the index holds the two entries
C27_Witness ==
    /\ \A t \in Threads : threads[t].pc = "idle"
    /\ Len(loader.returned) = 2
    /\ \E i, j \in 1..2 :
           /\ loader.returned[i].ok /\ loader.returned[i].ni = 2
           /\ ~loader.returned[j].ok /\ loader.returned[j].nv > 0
           /\ loader.returned[j].ni > 0
    /\ loader.metrics.total_vectors_loaded = 2
    /\ loader.metrics.failed_loads = 1
    /\ ShardSize(TheShard(index)) = 2

\* ---------------------------------------------------------------------
\* Clustering::train, one iteration of its loop over t at a time
\* ---------------------------------------------------------------------

\* values of the public member niter: the default, and two small ones, under
\* which the bound of the loop ends a restart before the centroids settle
Niters == {1, 2, niter}

\* one pass of the loop body (clustering.cpp 45-92): prev_centroids =
\* centroids, step 2.1, step 2.2 and the test of step 2.3; result holds the
\* centroids member
TrainIteration ==
    /\ call.op = "train_loop"
    /\ ~call.done
    /\ \E assign \in {Assign(call.x, call.n, call.d, call.k, result)} :
       \E next \in {Update(call.x, call.n, call.d, call.k, assign)} :
       \E max_change \in {MaxChange(result, next, call.d, call.k - 1)} :
           LET converged == call.t > 0 /\ BelowThreshold(max_change)
           IN  /\ result' = next
               /\ call' = [call EXCEPT !.t = @ + 1,
                                       !.prev_centroids = result,
                                       !.assign = assign,
                                       !.done = converged \/ call.t + 1 >= call.niter]
    /\ UNCHANGED <<index, in_vectors, in_ids, shuffle_rot, ivf, hist, fault>>
    /\ UNCHANGED varsMT

\* Clustering(d, k).train(vectors, ids) up to the loop over t: the initial
\* centroids are the first k rows in shuffled order
InitIterate ==
    /\ IdleIVF
    /\ IdleMT
    /\ index = [dimension |-> 1, shards |-> <<>>]
    /\ \E d \in Dims, k \in TrainKs, extra \in TrainExtra, rot \in ShuffleRots,
          iters \in Niters :
           \E rows \in [1..(k + extra) -> Points(d)] :
               LET n == k + extra
                   x == Flatten(Array([i \in 1..n |-> Array(rows[i])]))
               IN  /\ call = [op |-> "train_loop", k |-> k, ok |-> TRUE, x |-> x,
                              d |-> d, n |-> n, rot |-> rot, t |-> 0, niter |-> iters,
                              prev_centroids |-> <<>>, assign |-> <<>>, done |-> FALSE]
                   /\ result = InitialCentroids(x, n, d, k, Shuffle(Iota(n), rot), <<>>)

NextIterate == TrainIteration

SpecIterate == InitIterate /\ [][NextIterate]_vars

\* the restart under the scheduling of a running thread: the loop goes on
\* while it can
SpecIterateFair == SpecIterate /\ WF_vars(NextIterate)

\* C29: after an iteration, a centroid that no vector was assigned to in it
\* has the coordinates it had before the iteration
C29_EmptyCentroidStays ==
    (call.op = "train_loop" /\ call.t > 0) =>
        \A j \in 0..(call.k - 1) :
            CountOf(call.assign, j, call.n - 1) = 0 =>
                Row(result, j, call.d) = Row(call.prev_centroids, j, call.d)

\* ---------------------------------------------------------------------
\* VectorIndex::update_vector next to a search on the same shard
\* (vector_index.cpp 147-155): update_vector takes no lock of its own, it
\* calls remove_vector and then add_vectors, each under its own lock_guard
\* ---------------------------------------------------------------------
Updater == 1
Searcher == 2

\* the updater enters update_vector(id, new_vector); stored and size are
\* what the shard holds at that moment
RaceUpdateCall ==
    /\ threads[Updater].pc = "idle"
    /\ TheShard(index).version < MaxOps
    /\ \E id \in IndexIds, new_vector \in ShardFloatArrays :
           threads' = [threads EXCEPT ![Updater] =
               [pc |-> "check", op |-> "update_vector", id |-> id,
                new_vector |-> new_vector,
                stored |-> VectorsOf(TheShard(index), id),
                size |-> ShardSize(TheShard(index))]]
    /\ UNCHANGED <<index, result, call, mutex, disk, router, loader, varsSVC>>
    /\ UNCHANGED varsIVF

\* if (new_vector.size() != dimension_) return false
RaceUpdateCheck ==
    /\ threads[Updater].pc = "check"
    /\ threads' = [threads EXCEPT ![Updater].pc =
                      IF Len(threads[Updater].new_vector) # index.dimension
                      THEN "return" ELSE "remove_lock"]
    /\ UNCHANGED <<index, result, call, mutex, disk, router, loader, varsSVC>>
    /\ UNCHANGED varsIVF

\* the lock_guard of remove_vector, then of add_vectors
RaceUpdateLock ==
    /\ threads[Updater].pc \in {"remove_lock", "add_lock"}
    /\ MutexFree(mutex)
    /\ mutex' = Updater
    /\ threads' = [threads EXCEPT ![Updater].pc =
                      IF @ = "remove_lock" THEN "remove_crit" ELSE "add_crit"]
    /\ UNCHANGED <<index, result, call, disk, router, loader, varsSVC>>
    /\ UNCHANGED varsIVF

\* the body of remove_vector(id)
RaceUpdateRemove ==
    /\ threads[Updater].pc = "remove_crit"
    /\ LET r == VectorIndex_remove_vector(TheShard(index), threads[Updater].id)
       IN  /\ index' = [index EXCEPT !.shards[1] = r[2]]
           /\ threads' = [threads EXCEPT ![Updater].pc =
                             IF r[1] THEN "remove_unlock" ELSE "failed_unlock"]
    /\ UNCHANGED <<result, call, mutex, disk, router, loader, varsSVC>>
    /\ UNCHANGED varsIVF

\* the body of add_vectors(new_vector, {id})
RaceUpdateAdd ==
    /\ threads[Updater].pc = "add_crit"
    /\ LET r == VectorIndex_add_vectors(TheShard(index), index.dimension,
                                        threads[Updater].new_vector,
                                        <<threads[Updater].id>>)
       IN  /\ index' = [index EXCEPT !.shards[1] = r[2]]
           /\ threads' = [threads EXCEPT ![Updater].pc = "add_unlock"]
    /\ UNCHANGED <<result, call, mutex, disk, router, loader, varsSVC>>
    /\ UNCHANGED varsIVF

\* a lock_guard of the updater goes out of scope
RaceUpdateUnlock ==
    /\ threads[Updater].pc \in {"remove_unlock", "failed_unlock", "add_unlock"}
    /\ mutex' = 0
    /\ threads' = [threads EXCEPT ![Updater].pc =
                      IF @ = "remove_unlock" THEN "add_lock" ELSE "return"]
    /\ UNCHANGED <<index, result, call, disk, router, loader, varsSVC>>
    /\ UNCHANGED varsIVF

\* update_vector returns
RaceUpdateReturn ==
    /\ threads[Updater].pc = "return"
    /\ threads' = [threads EXCEPT ![Updater] = IdleThread]
    /\ UNCHANGED <<index, result, call, mutex, disk, router, loader, varsSVC>>
    /\ UNCHANGED varsIVF

\* the searcher enters search(query, k)
RaceSearchCall ==
    /\ threads[Searcher].pc = "idle"
    /\ \E k \in {1, 2} :
           threads' = [threads EXCEPT ![Searcher] =
               [pc |-> "search_lock", op |-> "search",
                query |-> [c \in 1..index.dimension |-> 0], k |-> k]]
    /\ UNCHANGED <<index, result, call, mutex, disk, router, loader, varsSVC>>
    /\ UNCHANGED varsIVF

\* the lock_guard of search
RaceSearchLock ==
    /\ threads[Searcher].pc = "search_lock"
    /\ MutexFree(mutex)
    /\ mutex' = Searcher
    /\ threads' = [threads EXCEPT ![Searcher].pc = "search_crit"]
    /\ UNCHANGED <<index, result, call, disk, router, loader, varsSVC>>
    /\ UNCHANGED varsIVF

\* the body of search: size() and the hits it sees, noted in call next to
\* the update that is under way
RaceSearchBody ==
    /\ threads[Searcher].pc = "search_crit"
    /\ \E hits \in VectorIndex_search(TheShard(index), index.dimension,
                                      threads[Searcher].query, threads[Searcher].k) :
           /\ result' = hits
           /\ call' = [op |-> "race_search", k |-> threads[Searcher].k, ok |-> TRUE,
                       size |-> ShardSize(TheShard(index)),
                       update |-> threads[Updater]]
    /\ threads' = [threads EXCEPT ![Searcher].pc = "search_unlock"]
    /\ UNCHANGED <<index, mutex, disk, router, loader, varsSVC>>
    /\ UNCHANGED varsIVF

\* search returns
RaceSearchUnlock ==
    /\ threads[Searcher].pc = "search_unlock"
    /\ mutex' = 0
    /\ threads' = [threads EXCEPT ![Searcher] = IdleThread]
    /\ UNCHANGED <<index, result, call, disk, router, loader, varsSVC>>
    /\ UNCHANGED varsIVF

\* a VectorIndex(d) after one add_vectors call
InitRace ==
    /\ IdleIVF
    /\ IdleMT
    /\ result = <<>>
    /\ call = NoCall
    /\ \E d \in IndexDims, vectors \in ShardFloatArrays, ids \in ShardIdArrays :
           index = [NewIndex(d, 1) EXCEPT
                       !.shards[1] = VectorIndex_add_vectors(@, d, vectors, ids)[2]]

NextRace ==
    \/ RaceUpdateCall
    \/ RaceUpdateCheck
    \/ RaceUpdateLock
    \/ RaceUpdateRemove
    \/ RaceUpdateAdd
    \/ RaceUpdateUnlock
    \/ RaceUpdateReturn
    \/ RaceSearchCall
    \/ RaceSearchLock
    \/ RaceSearchBody
    \/ RaceSearchUnlock

SpecRace == InitRace /\ [][NextRace]_vars

\* C30: a search that runs while update_vector(id, v) of an id stored once
\* is under way finds the shard no smaller than it was when the update was
\* called, and id among the hits whenever all entries fit into the k hits
C30_UpdateNeverAbsent ==
    (/\ call.op = "race_search"
     /\ call.update.op = "update_vector"
     /\ Len(call.update.stored) = 1) =>
        /\ call.size >= call.update.size
        /\ call.size <= call.k => \E i \in 1..Len(result) : result[i].id = call.update.id

\* ---------------------------------------------------------------------
\* Clustering::train, one restart of its loop over redo at a time
\* (clustering.cpp 30-94)
\* ---------------------------------------------------------------------
Nredos == {1, 2, 3}     \* values of nredo

\* dis[i] of step 2.1: min_dis after the scan of the k centroids
MinDis(v, centroids, d, k) ==
    LET j == AssignScan(v, centroids, d, k, 0, FLT_MAX, 0)
        dist == L2_distance(v, Row(centroids, j, d), d)
    IN  IF dist < FLT_MAX THEN dist ELSE FLT_MAX

RECURSIVE SumDis(_, _, _, _, _, _)
SumDis(vectors, n, d, k, centroids, i) ==
    IF i < 0 THEN 0
    ELSE SumDis(vectors, n, d, k, centroids, i - 1)
         + MinDis(Row(vectors, i, d), centroids, d, k)

\* the loop over t: the sum of the dis array as the last iteration that ran
\* left it (dis is written by step 2.1 only, from the centroids the
\* iteration started with)
RECURSIVE IterateCost(_, _, _, _, _, _)
IterateCost(vectors, n, d, k, centroids, t) ==
    LET next == Update(vectors, n, d, k, Assign(vectors, n, d, k, centroids))
    IN  IF t > 0 /\ BelowThreshold(MaxChange(centroids, next, d, k - 1))
        THEN SumDis(vectors, n, d, k, centroids, n - 1)
        ELSE IF t + 1 >= niter THEN SumDis(vectors, n, d, k, centroids, n - 1)
        ELSE IterateCost(vectors, n, d, k, next, t + 1)

\* one pass of the loop over redo: the generator is seeded again, the
\* indices are shuffled where the last restart left them, all k centroids
\* are overwritten and the loop over t runs; result holds the centroids
\* member, call.runs what each restart ended with
TrainRestart ==
    /\ call.op = "train_redo"
    /\ call.redo < call.nredo
    /\ LET shuffled == Shuffle(call.local_indices, call.rot)
           init == InitialCentroids(call.x, call.n, call.d, call.k, shuffled, <<>>)
           done == IF niter <= 0 THEN init
                   ELSE Iterate(call.x, call.n, call.d, call.k, init, 0)
           cost == IF niter <= 0 THEN 0
                   ELSE IterateCost(call.x, call.n, call.d, call.k, init, 0)
       IN  /\ result' = done
           /\ call' = [call EXCEPT !.redo = @ + 1,
                                   !.local_indices = shuffled,
                                   !.runs = Append(@, [centroids |-> done,
                                                       cost |-> cost])]
    /\ UNCHANGED <<index, in_vectors, in_ids, shuffle_rot, ivf, hist, fault>>
    /\ UNCHANGED varsMT

\* Clustering(d, k).train(vectors, ids) up to the loop over redo
InitRedo ==
    /\ IdleIVF
    /\ IdleMT
    /\ index = [dimension |-> 1, shards |-> <<>>]
    /\ result = <<>>
    /\ \E d \in Dims, k \in TrainKs, extra \in TrainExtra, rot \in ShuffleRots,
          nredo \in Nredos :
           \E rows \in [1..(k + extra) -> Points(d)] :
               LET n == k + extra
                   x == Flatten(Array([i \in 1..n |-> Array(rows[i])]))
               IN  call = [op |-> "train_redo", k |-> k, ok |-> TRUE, x |-> x,
                           d |-> d, n |-> n, rot |-> rot, nredo |-> nredo,
                           redo |-> 0, local_indices |-> Iota(n), runs |-> <<>>]

NextRedo == TrainRestart

SpecRedo == InitRedo /\ [][NextRedo]_vars

\* C31: after a train of more than one restart, the centroids member holds
\* the centroids of a restart whose sum of dis[i] is the least of all
\* restarts
C31_BestRestartKept ==
    (call.op = "train_redo" /\ call.nredo > 1 /\ call.redo = call.nredo) =>
        \E r \in 1..Len(call.runs) :
            /\ result = call.runs[r].centroids
            /\ \A q \in 1..Len(call.runs) : call.runs[r].cost <= call.runs[q].cost

\* ---------------------------------------------------------------------
\* the centroid count of the constructor against a build on the expected
\* number of vectors (distributed_index_ivf.cpp 31-34, 46-54)
\* ---------------------------------------------------------------------

\* n_train = std::min(int64_t(clustering_->k) * 64, num_vectors), in 64
\* bits: k * 64 <= num_vectors is tested by a division, since the product
\* for k = 2 * 10^9 does not fit the integers of the checker
NTrain(k, num_vectors) ==
    IF k <= num_vectors \div TrainFactor THEN k * TrainFactor ELSE num_vectors

\* C32: for N >= 1 the centroid count k = get_nlist(N) is at most N, and a
\* build on N vectors trains on n_train = min(64 k, N) >= k vectors
C32_NlistAtMostN ==
    (call.op = "get_nlist" /\ call.N >= 1) =>
        /\ result[1] <= call.N
        /\ NTrain(result[1], call.N) >= result[1]

\* whether centroid j is less than the threshold 1e-6 away (squared) from
\* where it was; the squared distances of the model are integers
Settled(before, after, d, j) ==
    L2_distance(Row(before, j, d), Row(after, j, d), d) = 0

\* C33: a restart runs at most niter iterations; it ends before iteration
\* niter only after an iteration t >= 1 in which every centroid moved by a
\* squared distance below 1e-6; and it ends
C33_RestartTerminates ==
    /\ [][call.op = "train_loop" =>
             /\ call'.t = call.t + 1
             /\ call'.t <= call.niter
             /\ call'.done =>
                    \/ call'.t = call.niter
                    \/ /\ call.t >= 1
                       /\ \A j \in 0..(call.k - 1) : Settled(result, result', call.d, j)
             /\ call'.t = call.niter => call'.done]_vars
    /\ <>(call.op = "train_loop" /\ call.done)

\* a restart with niter = 25 that ended after its third iteration (t = 2):
\* the centroids moved in the second and stayed in the third
C33_Witness ==
    /\ call.op = "train_loop"
    /\ call.niter = niter
    /\ call.done
    /\ call.t = 3
    /\ result = call.prev_centroids

\* ---------------------------------------------------------------------
\* the two samplers of the builds as calls of their own
\* (distributed_index_ivf.cpp 147-170, 180-222)
\* ---------------------------------------------------------------------
SampleDims == {1, 2}
SampleCounts == 0..4        \* n, the number of input vectors
SampleKs == {0, 8}          \* clustering_->k: get_nlist(0), get_nlist(1)

\* n input vectors of dimension d, vector i having all its coordinates i:
\* a sampled row tells the input position it was taken from
Tagged(n, d) == Flatten(Array([i \in 1..n |-> Array([c \in 1..d |-> i - 1])]))

\* what std::shuffle under a generator seeded by std::random_device can
\* leave in the array 0, 1, ..., n - 1: every order
Shuffles(n) == {Array([i \in 1..n |-> p[i] - 1]) : p \in Permutations(1..n)}

\* the n_train a caller asks a sampler for: build_index asks for k * 64,
\* build_index_optimized_by_swe1_5 for min(k * 64, n); a direct call for
\* any count
Asked(k, n) == {k * TrainFactor, Min(k * TrainFactor, n)} \cup 0..(n + 1)

SampleCall(op, d, n, k, n_train) ==
    [op |-> op, ok |-> TRUE, k |-> k, d |-> d, n |-> n, n_train |-> n_train,
     x |-> Tagged(n, d)]

\* r = sample_training_vectors(vectors, n_train)
SampleShuffle ==
    /\ call.op = "args"
    /\ \E indices \in Shuffles(call.n) :
           result' = sample_training_vectors(call.x, call.n_train, call.d, indices)
    /\ call' = [call EXCEPT !.op = "sample_training_vectors"]
    /\ UNCHANGED <<in_vectors, in_ids, shuffle_rot, ivf, hist, fault, index>>
    /\ UNCHANGED varsMT

\* r = sample_training_vectors_optimized(vectors, n_train)
SampleReservoir ==
    /\ call.op = "args"
    /\ \E draws \in ReservoirDraws(call.x, call.n_train, call.d) :
           result' = sample_training_vectors_optimized(call.x, call.n_train,
                                                       call.d, draws)
    /\ call' = [call EXCEPT !.op = "sample_training_vectors_optimized"]
    /\ UNCHANGED <<in_vectors, in_ids, shuffle_rot, ivf, hist, fault, index>>
    /\ UNCHANGED varsMT

InitSample ==
    /\ IdleIVF
    /\ IdleMT
    /\ index = [dimension |-> 1, shards |-> <<>>]
    /\ result = <<>>
    /\ \E d \in SampleDims, n \in SampleCounts, k \in SampleKs :
           \E n_train \in Asked(k, n) : call = SampleCall("args", d, n, k, n_train)

NextSample == SampleShuffle \/ SampleReservoir

SpecSample == InitSample /\ [][NextSample]_vars

\* the input positions of the rows of a sample of Tagged(n, d)
PositionsOf(sample, d) == {sample[(r - 1) * d + 1] : r \in 1..(Len(sample) \div d)}

\* the sets of input positions each sampler can return for a call
ShuffleSamples(c) ==
    {PositionsOf(sample_training_vectors(c.x, c.n_train, c.d, indices), c.d) :
        indices \in Shuffles(c.n)}
ReservoirSamples(c) ==
    {PositionsOf(sample_training_vectors_optimized(c.x, c.n_train, c.d, draws), c.d) :
        draws \in ReservoirDraws(c.x, c.n_train, c.d)}

\* C34: a build asks for 64 k vectors or for min(64 k, n) and trains on
\* min(64 k, n); a sampler asked for n_train of n vectors returns
\* min(n_train, n) rows from pairwise distinct input positions; and the
\* sets of positions either sampler can return are all the sets of that size
C34_Samplers ==
    call.op \in {"sample_training_vectors", "sample_training_vectors_optimized"} =>
        LET m == Min(call.n_train, call.n)
            subsets == {S \in SUBSET (0..(call.n - 1)) : Cardinality(S) = m}
        IN  /\ Len(result) = m * call.d
            /\ \A r \in 1..m : Row(result, r - 1, call.d) = Row(call.x, result[(r - 1) * call.d + 1], call.d)
            /\ PositionsOf(result, call.d) \in subsets
            /\ call.n_train \in {call.k * TrainFactor, Min(call.k * TrainFactor, call.n)}
                   => Len(result) \div call.d = Min(call.k * TrainFactor, call.n)
            /\ ShuffleSamples(call) = subsets
            /\ ReservoirSamples(call) = subsets

\* the reservoir sampler, asked for 2 of 4 vectors, returned the vectors at
\* positions 3 and 2, neither of them among the first two
C34_Witness ==
    /\ call.op = "sample_training_vectors_optimized"
    /\ call.n = 4
    /\ call.n_train = 2
    /\ call.d = 2
    /\ result = <<3, 3, 2, 2>>

\* ---------------------------------------------------------------------
\* ConsistencyManager::VectorClock (consistency_manager.cpp 92-122)
\* ---------------------------------------------------------------------
ClockNodes == {"n1", "n2"}  \* node ids
MaxTick == 2                \* a counter of a clock is incremented up to here

\* the entry of node_id in the map clock, or 0 when the map has none
ClockValue(clock, node_id) == IF node_id \in DOMAIN clock THEN clock[node_id] ELSE 0

\* the map clock with the entry of node_id set to value
ClockWith(clock, node_id, value) ==
    [n \in DOMAIN clock \cup {node_id} |-> IF n = node_id THEN value ELSE clock[n]]

\* void VectorClock::increment(node_id): ++clock[node_id], operator[] adding
\* an entry 0 when there is none
VectorClock_increment(clock, node_id) ==
    ClockWith(clock, node_id, ClockValue(clock, node_id) + 1)

\* void VectorClock::update(other): every entry of other that this clock
\* lacks or has a lower value for is copied
VectorClock_update(clock, other) ==
    [n \in DOMAIN clock \cup DOMAIN other |->
        IF n \in DOMAIN other /\ (n \notin DOMAIN clock \/ clock[n] < other[n])
        THEN other[n] ELSE clock[n]]

\* bool VectorClock::happens_before(other): the loop visits the entries of
\* this clock only; it returns false at the first one above other's, and
\* strictly_less otherwise
VectorClock_happens_before(clock, other) ==
    /\ \A n \in DOMAIN clock : ~(clock[n] > ClockValue(other, n))
    /\ \E n \in DOMAIN clock : clock[n] < ClockValue(other, n)

\* bool VectorClock::is_concurrent(other)
VectorClock_is_concurrent(clock, other) ==
    ~VectorClock_happens_before(clock, other)
        /\ ~VectorClock_happens_before(other, clock)

ClockCall(op, a, b) == [op |-> op, k |-> 0, ok |-> TRUE, a |-> a, b |-> b]

\* a.increment(node_id)
ClockIncrement ==
    /\ \E a \in ClockNames, node_id \in ClockNodes :
           /\ ClockValue(clocks[a], node_id) < MaxTick
           /\ clocks' = [clocks EXCEPT ![a] = VectorClock_increment(@, node_id)]
           /\ call' = ClockCall("increment", a, a)
    /\ UNCHANGED <<index, result, mutex, threads, disk, router, loader, handler,
                   manager, storage, cluster>>
    /\ UNCHANGED varsIVF

\* a.update(b)
ClockUpdate ==
    /\ \E a \in ClockNames, b \in ClockNames :
           /\ clocks' = [clocks EXCEPT ![a] = VectorClock_update(@, clocks[b])]
           /\ call' = ClockCall("update", a, b)
    /\ UNCHANGED <<index, result, mutex, threads, disk, router, loader, handler,
                   manager, storage, cluster>>
    /\ UNCHANGED varsIVF

\* r = a.happens_before(b)
ClockHappensBefore ==
    /\ \E a \in ClockNames, b \in ClockNames :
           /\ result' = <<VectorClock_happens_before(clocks[a], clocks[b])>>
           /\ call' = ClockCall("happens_before", a, b)
    /\ UNCHANGED index
    /\ UNCHANGED varsMT
    /\ UNCHANGED varsIVF

\* r = a.is_concurrent(b)
ClockIsConcurrent ==
    /\ \E a \in ClockNames, b \in ClockNames :
           /\ result' = <<VectorClock_is_concurrent(clocks[a], clocks[b])>>
           /\ call' = ClockCall("is_concurrent", a, b)
    /\ UNCHANGED index
    /\ UNCHANGED varsMT
    /\ UNCHANGED varsIVF

InitClocks ==
    /\ IdleIVF
    /\ IdleMT
    /\ IdleIDX

NextClocks == ClockIncrement \/ ClockUpdate \/ ClockHappensBefore \/ ClockIsConcurrent

SpecClocks == InitClocks /\ [][NextClocks]_vars

\* a <= b in every component and a < b in one, absent entries read as 0
StrictlyBelow(a, b) ==
    /\ \A n \in ClockNodes : ClockValue(a, n) <= ClockValue(b, n)
    /\ \E n \in ClockNodes : ClockValue(a, n) < ClockValue(b, n)

\* C35: happens_before is the strict component-wise order with absent
\* entries read as 0, and is_concurrent is false when one clock is
\* strictly below the other
C35_StrictOrder ==
    /\ call.op = "happens_before" =>
           result[1] = StrictlyBelow(clocks[call.a], clocks[call.b])
    /\ (call.op = "is_concurrent"
           /\ (StrictlyBelow(clocks[call.a], clocks[call.b])
                  \/ StrictlyBelow(clocks[call.b], clocks[call.a]))) => ~result[1]

\* ---------------------------------------------------------------------
\* MessageHandler: start_processing, stop_processing and the processing
\* threads (message_handler.cpp 75-93, 131-153, 289-302).  Nothing in the
\* source pushes to message_queue_, so the queue is empty throughout.
\* ---------------------------------------------------------------------
MaxWorkers == 2     \* start_processing is followed for at most so many threads

\* the processing threads by index
Workers == DOMAIN handler.processing_threads

\* the handler with processing thread w at pc
WorkerAt(w, pc) == [handler EXCEPT !.processing_threads[w] = pc]

\* set_processing_threads(num_threads)
SetProcessingThreads ==
    /\ handler.caller = "idle"
    /\ \E num_threads \in 0..MaxWorkers :
           handler' = [handler EXCEPT !.num_processing_threads =
                                          IF num_threads < 1 THEN 1 ELSE num_threads]
    /\ UNCHANGED <<index, result, call, mutex, threads, disk, router, loader,
                   clocks, manager, storage, cluster>>
    /\ UNCHANGED varsIVF

\* start_processing(): returns if processing_ is set; else sets it and
\* start_processing_threads() starts num_processing_threads_ threads
StartProcessing ==
    /\ handler.caller = "idle"
    /\ handler.num_processing_threads <= MaxWorkers
    /\ handler' =
           IF handler.processing THEN handler
           ELSE [handler EXCEPT
                    !.processing = TRUE,
                    !.processing_threads =
                        @ \o [i \in 1..handler.num_processing_threads |-> "while"]]
    /\ UNCHANGED <<index, result, call, mutex, threads, disk, router, loader,
                   clocks, manager, storage, cluster>>
    /\ UNCHANGED varsIVF

\* the caller enters stop_processing()
StopProcessingCall ==
    /\ handler.caller = "idle"
    /\ handler' = [handler EXCEPT !.caller = "stop_processing"]
    /\ UNCHANGED <<index, result, call, mutex, threads, disk, router, loader,
                   clocks, manager, storage, cluster>>
    /\ UNCHANGED varsIVF

\* if (!processing_.load()) return; processing_ = false;
StopProcessingStore ==
    /\ handler.caller = "stop_processing"
    /\ handler' = IF ~handler.processing
                  THEN [handler EXCEPT !.caller = "idle"]
                  ELSE [handler EXCEPT !.processing = FALSE, !.caller = "notify_all"]
    /\ UNCHANGED <<index, result, call, mutex, threads, disk, router, loader,
                   clocks, manager, storage, cluster>>
    /\ UNCHANGED varsIVF

\* queue_cv_.notify_all(), without queue_mutex_: the threads blocked in the
\* wait at this moment are woken
StopProcessingNotify ==
    /\ handler.caller = "notify_all"
    /\ handler' = [handler EXCEPT
                      !.caller = "join",
                      !.processing_threads =
                          [w \in Workers |-> IF @[w] = "waiting" THEN "woken" ELSE @[w]]]
    /\ UNCHANGED <<index, result, call, mutex, threads, disk, router, loader,
                   clocks, manager, storage, cluster>>
    /\ UNCHANGED varsIVF

\* stop_processing_threads(): every thread is joined, which takes until it
\* has left processing_loop; then processing_threads_.clear()
StopProcessingJoin ==
    /\ handler.caller = "join"
    /\ \A w \in Workers : handler.processing_threads[w] = "exited"
    /\ handler' = [handler EXCEPT !.caller = "idle", !.processing_threads = <<>>]
    /\ UNCHANGED <<index, result, call, mutex, threads, disk, router, loader,
                   clocks, manager, storage, cluster>>
    /\ UNCHANGED varsIVF

\* a step of processing thread w in processing_loop()
WorkerStep(w) ==
    /\ w \in Workers
    /\ LET pc == handler.processing_threads[w]
       IN  \/ \* while (processing_.load())
              /\ pc = "while"
              /\ handler' = WorkerAt(w, IF handler.processing THEN "lock" ELSE "exited")
           \/ \* std::unique_lock<std::mutex> lock(queue_mutex_), and the
              \* lock taken again by a thread the wait has woken
              /\ pc \in {"lock", "woken"}
              /\ handler.queue_mutex = 0
              /\ handler' = [WorkerAt(w, "predicate") EXCEPT !.queue_mutex = w]
           \/ \* the predicate of the wait, under the lock: the queue is
              \* empty, so it is !processing_.load()
              /\ pc = "predicate"
              /\ handler' = WorkerAt(w, IF ~handler.processing THEN "check" ELSE "block")
           \/ \* the predicate was false: the wait releases the lock and
              \* blocks the thread
              /\ pc = "block"
              /\ handler' = [WorkerAt(w, "waiting") EXCEPT !.queue_mutex = 0]
           \/ \* if (!processing_.load()) break; if (message_queue_.empty())
              \* continue; either way the lock is released
              /\ pc = "check"
              /\ handler' = [WorkerAt(w, IF ~handler.processing THEN "exited" ELSE "while")
                                EXCEPT !.queue_mutex = 0]
    /\ UNCHANGED <<index, result, call, mutex, threads, disk, router, loader,
                   clocks, manager, storage, cluster>>
    /\ UNCHANGED varsIVF

\* a wait may return without a notification
SpuriousWakeup(w) ==
    /\ w \in Workers
    /\ handler.processing_threads[w] = "waiting"
    /\ handler' = WorkerAt(w, "woken")
    /\ UNCHANGED <<index, result, call, mutex, threads, disk, router, loader,
                   clocks, manager, storage, cluster>>
    /\ UNCHANGED varsIVF

InitHandler ==
    /\ IdleIVF
    /\ IdleMT
    /\ IdleIDX

NextHandler ==
    \/ SetProcessingThreads
    \/ StartProcessing
    \/ StopProcessingCall
    \/ StopProcessingStore
    \/ StopProcessingNotify
    \/ StopProcessingJoin
    \/ \E w \in 1..MaxWorkers : WorkerStep(w)
    \/ \E w \in 1..MaxWorkers : SpuriousWakeup(w)

SpecHandler == InitHandler /\ [][NextHandler]_vars

\* every thread that can take a step takes one in the end; a call is not
\* bound to come, and neither is a wakeup without notification
SpecHandlerFair ==
    /\ SpecHandler
    /\ WF_vars(StopProcessingStore)
    /\ WF_vars(StopProcessingNotify)
    /\ WF_vars(StopProcessingJoin)
    /\ \A w \in 1..MaxWorkers : WF_vars(WorkerStep(w))

\* C36: a stop_processing() call returns
C36_StopReturns ==
    (handler.caller = "stop_processing") ~> (handler.caller = "idle")

\* ---------------------------------------------------------------------
\* ConsistencyManager: start_anti_entropy and stop_anti_entropy called from
\* two threads, and the threads that run anti_entropy_loop
\* (consistency_manager.cpp 69-86, 150-154)
\* ---------------------------------------------------------------------
MaxLoops == 3       \* anti-entropy threads started in a run

\* the anti-entropy threads that have not left anti_entropy_loop
RunningLoops == {i \in DOMAIN manager.loops : manager.loops[i] = "running"}

\* the manager with calling thread t at pc
CallerAt(t, pc) == [manager EXCEPT !.callers[t] = pc]

\* thread t enters start_anti_entropy()
StartAntiEntropyCall(t) ==
    /\ fault = "none"
    /\ manager.callers[t] = "idle"
    /\ Len(manager.loops) < MaxLoops
    /\ manager' = [CallerAt(t, "start") EXCEPT !.stopped = FALSE]
    /\ UNCHANGED fault

\* if (running_) return;
StartAntiEntropyTest(t) ==
    /\ fault = "none"
    /\ manager.callers[t] = "start"
    /\ manager' = CallerAt(t, IF manager.running THEN "idle" ELSE "start_store")
    /\ UNCHANGED fault

\* running_ = true;
StartAntiEntropyStore(t) ==
    /\ fault = "none"
    /\ manager.callers[t] = "start_store"
    /\ manager' = [CallerAt(t, "start_thread") EXCEPT !.running = TRUE]
    /\ UNCHANGED fault

\* anti_entropy_thread_ = std::thread(&anti_entropy_loop, this): the new
\* thread runs; the move assignment calls std::terminate() if the member
\* still holds a joinable thread
StartAntiEntropyThread(t) ==
    /\ fault = "none"
    /\ manager.callers[t] = "start_thread"
    /\ manager' = [CallerAt(t, "idle") EXCEPT
                      !.loops = Append(@, "running"),
                      !.anti_entropy_thread = Len(manager.loops) + 1]
    /\ fault' = IF manager.anti_entropy_thread # 0 THEN "terminate" ELSE fault

\* thread t enters stop_anti_entropy()
StopAntiEntropyCall(t) ==
    /\ fault = "none"
    /\ manager.callers[t] = "idle"
    /\ manager' = CallerAt(t, "stop")
    /\ UNCHANGED fault

\* if (!running_) return;
StopAntiEntropyTest(t) ==
    /\ fault = "none"
    /\ manager.callers[t] = "stop"
    /\ manager' = IF ~manager.running
                  THEN [CallerAt(t, "idle") EXCEPT
                           !.stopped = \A u \in Threads \ {t} :
                                           manager.callers[u] \in {"idle", "stop"}]
                  ELSE CallerAt(t, "stop_store")
    /\ UNCHANGED fault

\* running_ = false; operation_cv_.notify_all();
StopAntiEntropyStore(t) ==
    /\ fault = "none"
    /\ manager.callers[t] = "stop_store"
    /\ manager' = [CallerAt(t, "joinable") EXCEPT !.running = FALSE]
    /\ UNCHANGED fault

\* if (anti_entropy_thread_.joinable()): the thread to join is read here
StopAntiEntropyJoinable(t) ==
    /\ fault = "none"
    /\ manager.callers[t] = "joinable"
    /\ manager' =
           IF manager.anti_entropy_thread = 0
           THEN [CallerAt(t, "idle") EXCEPT
                    !.stopped = \A u \in Threads \ {t} :
                                    manager.callers[u] \in {"idle", "stop"}]
           ELSE [CallerAt(t, "join") EXCEPT !.joining[t] = manager.anti_entropy_thread]
    /\ UNCHANGED fault

\* anti_entropy_thread_.join(): returns when the thread has left its loop,
\* and the member is not joinable afterwards; joining a thread that another
\* caller has joined meanwhile is undefined: the call returns, or it throws
\* and the process ends
StopAntiEntropyJoin(t) ==
    /\ fault = "none"
    /\ manager.callers[t] = "join"
    /\ manager.loops[manager.joining[t]] = "exited"
    /\ manager' = [CallerAt(t, "idle") EXCEPT
                      !.anti_entropy_thread =
                          IF @ = manager.joining[t] THEN 0 ELSE @,
                      !.joining[t] = 0,
                      !.stopped = \A u \in Threads \ {t} :
                                      manager.callers[u] \in {"idle", "stop"}]
    /\ \/ UNCHANGED fault
       \/ /\ manager.anti_entropy_thread # manager.joining[t]
          /\ fault' = "terminate"

\* anti_entropy_loop(): while (running_) sleep_for(1 s)
AntiEntropyLoop(i) ==
    /\ fault = "none"
    /\ i \in RunningLoops
    /\ ~manager.running
    /\ manager' = [manager EXCEPT !.loops[i] = "exited"]
    /\ UNCHANGED fault

InitManager ==
    /\ IdleIVF
    /\ IdleMT
    /\ IdleIDX

NextManager ==
    /\ \/ \E t \in Threads :
              \/ StartAntiEntropyCall(t)
              \/ StartAntiEntropyTest(t)
              \/ StartAntiEntropyStore(t)
              \/ StartAntiEntropyThread(t)
              \/ StopAntiEntropyCall(t)
              \/ StopAntiEntropyTest(t)
              \/ StopAntiEntropyStore(t)
              \/ StopAntiEntropyJoinable(t)
              \/ StopAntiEntropyJoin(t)
       \/ \E i \in 1..MaxLoops : AntiEntropyLoop(i)
    /\ UNCHANGED <<in_vectors, in_ids, shuffle_rot, ivf, hist, index, result, call,
                   mutex, threads, disk, router, loader, clocks, handler, storage,
                   cluster>>

SpecManager == InitManager /\ [][NextManager]_vars

\* C37: at most one anti-entropy thread is running, no thread is assigned
\* over a joinable one (the process would terminate), and after a
\* stop_anti_entropy() that returned with no start_anti_entropy() since or
\* under way, no anti-entropy thread is running
C37_OneAntiEntropyThread ==
    /\ Cardinality(RunningLoops) <= 1
    /\ fault # "terminate"
    /\ manager.stopped => RunningLoops = {}

\* ---------------------------------------------------------------------
\* LocalStorage: set, get, del and flush_to_disk called by one thread
\* (local_storage.cpp 65-168, 355-369, 555-564)
\* ---------------------------------------------------------------------
StorageKeys == {"", "k1", "k2"}     \* "" is no valid key
StorageValues == {"v1", "v2"}

\* the files a data directory may hold, and the caches: values by key
StorageMaps == UNION {[ks -> StorageValues] : ks \in SUBSET (StorageKeys \ {""})}

\* bool validate_key(key), on the keys above
validate_key(key) == key # ""

\* the map m with value stored under key
MapWith(m, key, value) ==
    [x \in DOMAIN m \cup {key} |-> IF x = key THEN value ELSE m[x]]

\* the map m without key
MapWithout(m, key) == [x \in DOMAIN m \ {key} |-> m[x]]

\* read_file(get_file_path(key)): the content, or "" when there is no file
read_file(files, key) == IF key \in DOMAIN files THEN files[key] ELSE ""

\* the storage when a call returns ret
Returns(s, ret) == [s EXCEPT !.pc = "idle", !.ret = <<ret>>]

\* add_to_cache(key, value) from a block that holds storage_mutex_: its
\* lock_guard locks the std::mutex a second time in the same thread, which
\* is undefined.  The thread blocks for good; or lock() throws
\* std::system_error, which leaves the caller through the outer guard; or
\* the lock does nothing (a build without thread support) and the call goes
\* on and returns ret
AddToCacheLocked(s, ret) ==
    {[s EXCEPT !.pc = "blocked"],
     [s EXCEPT !.pc = "idle", !.mutex = 0, !.ret = <<"system_error">>],
     [s EXCEPT !.pc = "idle", !.mutex = 0, !.ret = <<ret>>,
               !.memory_cache = MapWith(@, s.key, s.value)]}

\* the thread calls set(key, value)
StorageSetCall ==
    /\ storage.pc = "idle"
    /\ \E key \in StorageKeys, value \in StorageValues :
           storage' = [storage EXCEPT !.pc = "validate", !.op = "set",
                                      !.key = key, !.value = value, !.ret = <<>>]

\* the thread calls get(key)
StorageGetCall ==
    /\ storage.pc = "idle"
    /\ \E key \in StorageKeys :
           storage' = [storage EXCEPT !.pc = "validate", !.op = "get",
                                      !.key = key, !.value = "", !.ret = <<>>]

\* the next step of set(key, value)
StorageSetStep ==
    /\ storage.op = "set"
    /\ \/ \* if (!validate_key(key)) return false; compression and
          \* encryption leave the value as it is
          /\ storage.pc = "validate"
          /\ storage' = IF validate_key(storage.key)
                        THEN [storage EXCEPT !.pc = "lock"]
                        ELSE Returns(storage, "false")
       \/ \* std::lock_guard<std::mutex> lock(storage_mutex_);
          /\ storage.pc = "lock"
          /\ storage.mutex = 0
          /\ storage' = [storage EXCEPT !.pc = "add_to_cache", !.mutex = 1]
       \/ \* add_to_cache(key, processed_value); update_stats; return true
          /\ storage.pc = "add_to_cache"
          /\ storage' \in AddToCacheLocked(storage, "true")

\* the next step of get(key)
StorageGetStep ==
    /\ storage.op = "get"
    /\ \/ \* if (!validate_key(key)) return "";
          /\ storage.pc = "validate"
          /\ storage' = IF validate_key(storage.key)
                        THEN [storage EXCEPT !.pc = "lock"]
                        ELSE Returns(storage, "")
       \/ \* the block that checks the cache, under storage_mutex_: a hit
          \* returns the cached value and releases the lock
          /\ storage.pc = "lock"
          /\ storage.mutex = 0
          /\ storage' = IF storage.key \in DOMAIN storage.memory_cache
                        THEN Returns(storage, storage.memory_cache[storage.key])
                        ELSE [storage EXCEPT !.pc = "read_file"]
       \/ \* value = read_file(file_path); if (value.empty()) return "";
          \* then the second block takes storage_mutex_
          /\ storage.pc = "read_file"
          /\ storage.mutex = 0
          /\ LET value == read_file(storage.files, storage.key)
             IN  storage' = IF value = "" THEN Returns(storage, "")
                            ELSE [storage EXCEPT !.pc = "add_to_cache",
                                                 !.value = value, !.mutex = 1]
       \/ \* add_to_cache(key, value); return value
          /\ storage.pc = "add_to_cache"
          /\ storage' \in AddToCacheLocked(storage, storage.value)

\* del(key): the key leaves the cache under the lock, and its file is deleted
StorageDel ==
    /\ storage.pc = "idle"
    /\ storage.mutex = 0
    /\ \E key \in StorageKeys :
           storage' =
               IF ~validate_key(key)
               THEN [Returns(storage, "false") EXCEPT !.op = "del", !.key = key]
               ELSE [Returns(storage, IF key \in DOMAIN storage.files THEN "true" ELSE "false") EXCEPT
                        !.op = "del", !.key = key,
                        !.memory_cache = MapWithout(@, key),
                        !.files = MapWithout(@, key)]

\* flush_to_disk(): every cached value is written to its file, under the lock
StorageFlush ==
    /\ storage.pc = "idle"
    /\ storage.mutex = 0
    /\ storage' = [Returns(storage, "true") EXCEPT
                      !.op = "flush_to_disk",
                      !.files = [x \in DOMAIN @ \cup DOMAIN storage.memory_cache |->
                                    IF x \in DOMAIN storage.memory_cache
                                    THEN storage.memory_cache[x] ELSE @[x]]]

\* a LocalStorage constructed on a data directory with some files in it
InitStorage ==
    /\ IdleIVF
    /\ IdleIDX
    /\ mutex = 0
    /\ threads = [t \in Threads |-> IdleThread]
    /\ disk = <<>>
    /\ router = NewRouter
    /\ loader = NewLoader
    /\ clocks = NewClocks
    /\ handler = NewHandler
    /\ manager = NewManager
    /\ cluster = NewCluster
    /\ \E files \in StorageMaps : storage = [NewStorage EXCEPT !.files = files]

NextStorage ==
    /\ \/ StorageSetCall
       \/ StorageGetCall
       \/ StorageSetStep
       \/ StorageGetStep
       \/ StorageDel
       \/ StorageFlush
    /\ UNCHANGED <<index, result, call, mutex, threads, disk, router, loader,
                   clocks, handler, manager, cluster>>
    /\ UNCHANGED varsIVF

SpecStorage == InitStorage /\ [][NextStorage]_vars

\* C38: set and get never reach the lock of add_to_cache while the calling
\* thread holds storage_mutex_; so no call blocks for good or ends by an
\* exception, and a set with a valid key that returned has returned true
C38_NoSelfDeadlock ==
    /\ ~(storage.pc = "add_to_cache" /\ storage.mutex = 1)
    /\ storage.pc # "blocked"
    /\ storage.ret # <<"system_error">>
    /\ (storage.op = "set" /\ storage.pc = "idle" /\ validate_key(storage.key))
           => storage.ret = <<"true">>

\* ---------------------------------------------------------------------
\* NodeManager: heartbeats and the health monitor
\* (node_manager.cpp 18-27, 59-78, 103-109, 121-133, 143-166)
\* ---------------------------------------------------------------------
HeartbeatTimeout == 30000       \* ms: the constant of get_failed_nodes
MaxTicks == 3                   \* the system clock is advanced so many times
ClusterNodes == {"self", "n2"}  \* node ids; "self" is the manager's own
TickSteps == {1, HeartbeatTimeout}  \* by how many ms the clock advances

\* NodeInfo(node_id, address, port): not active, last_heartbeat 0
NewNodeInfo == [is_active |-> FALSE, last_heartbeat |-> 0]

\* now_ms - last_heartbeat > 30000 with now_ms an int64_t and last_heartbeat
\* a uint64_t: the difference is taken in uint64_t, so for last_heartbeat >
\* now_ms it is 2^64 - (last_heartbeat - now_ms), far above 30000
HeartbeatExpired(now_ms, last_heartbeat) ==
    IF now_ms >= last_heartbeat THEN now_ms - last_heartbeat > HeartbeatTimeout
    ELSE TRUE

\* the loop of get_failed_nodes over cluster_nodes_
FailedNodes(nodes, now_ms) ==
    {n \in DOMAIN nodes :
        nodes[n].is_active /\ HeartbeatExpired(now_ms, nodes[n].last_heartbeat)}

\* the system clock advances
Tick ==
    /\ cluster.ticks < MaxTicks
    /\ \E step \in TickSteps :
           cluster' = [cluster EXCEPT !.now = @ + step, !.ticks = @ + 1]

\* start(): running_ = true, and the manager's own node is registered,
\* active, with the current time as its heartbeat
StartNode ==
    /\ ~cluster.running
    /\ cluster' = [cluster EXCEPT
                      !.running = TRUE,
                      !.nodes = MapWith(@, "self",
                                    [is_active |-> TRUE, last_heartbeat |-> cluster.now])]

\* register_node(NodeInfo(node_id, address, port))
RegisterNode ==
    \E n \in ClusterNodes \ {"self"} :
        /\ n \notin DOMAIN cluster.nodes
        /\ cluster' = [cluster EXCEPT !.nodes = MapWith(@, n, NewNodeInfo)]

\* unregister_node(node_id)
UnregisterNode ==
    \E n \in DOMAIN cluster.nodes :
        cluster' = [cluster EXCEPT !.nodes = MapWithout(@, n)]

\* update_heartbeat(node_id): under nodes_mutex_, a registered node gets the
\* current time as its heartbeat and becomes active
UpdateHeartbeat ==
    \E n \in ClusterNodes :
        cluster' =
            IF n \in DOMAIN cluster.nodes
            THEN [cluster EXCEPT
                     !.nodes[n] = [is_active |-> TRUE, last_heartbeat |-> cluster.now]]
            ELSE cluster

\* start_health_monitor(): the monitor thread starts
StartHealthMonitor ==
    /\ ~cluster.health_monitor_running
    /\ cluster' = [cluster EXCEPT !.health_monitor_running = TRUE]

\* check_node_health() enters get_failed_nodes(), which reads the clock
\* before it takes nodes_mutex_
MonitorNow ==
    /\ cluster.health_monitor_running
    /\ cluster.monitor.pc = "sleep"
    /\ cluster' = [cluster EXCEPT !.monitor.pc = "get_failed_nodes",
                                  !.monitor.now_ms = cluster.now]

\* get_failed_nodes(), under nodes_mutex_: the nodes reported
MonitorScan ==
    /\ cluster.monitor.pc = "get_failed_nodes"
    /\ cluster' = [cluster EXCEPT
                      !.monitor.pc = "handle_node_failure",
                      !.monitor.failed = FailedNodes(cluster.nodes, cluster.monitor.now_ms)]

\* handle_node_failure(node_id) for one node of the list, under
\* nodes_mutex_: a node still registered becomes inactive and the leave
\* callback is invoked for it
MonitorHandle ==
    /\ cluster.monitor.pc = "handle_node_failure"
    /\ \E n \in cluster.monitor.failed :
           cluster' =
               IF n \in DOMAIN cluster.nodes
               THEN [cluster EXCEPT !.monitor.failed = @ \ {n},
                                    !.nodes[n].is_active = FALSE,
                                    !.left = Append(@, n)]
               ELSE [cluster EXCEPT !.monitor.failed = @ \ {n}]

\* the list is done: the monitor sleeps for a second
MonitorSleep ==
    /\ cluster.monitor.pc = "handle_node_failure"
    /\ cluster.monitor.failed = {}
    /\ cluster' = [cluster EXCEPT !.monitor.pc = "sleep"]

InitCluster ==
    /\ IdleIVF
    /\ IdleMT
    /\ IdleIDX

NextCluster ==
    /\ \/ Tick
       \/ StartNode
       \/ RegisterNode
       \/ UnregisterNode
       \/ UpdateHeartbeat
       \/ StartHealthMonitor
       \/ MonitorNow
       \/ MonitorScan
       \/ MonitorHandle
       \/ MonitorSleep
    /\ UNCHANGED <<index, result, call, mutex, threads, disk, router, loader,
                   clocks, handler, manager, storage>>
    /\ UNCHANGED varsIVF

SpecCluster == InitCluster /\ [][NextCluster]_vars

\* the nodes that are active with a heartbeat more than 30000 ms before now_ms
Overdue(nodes, now_ms) ==
    {n \in DOMAIN nodes :
        nodes[n].is_active /\ now_ms - nodes[n].last_heartbeat > HeartbeatTimeout}

\* C39: get_failed_nodes reports the registered nodes that are active with a
\* heartbeat more than 30000 ms old, and no other; a health check makes a
\* reported node inactive and invokes the leave callback once for it; and a
\* node that is inactive is not called back
C39_FailureDetection ==
    [][/\ (cluster.monitor.pc = "get_failed_nodes"
              /\ cluster'.monitor.pc = "handle_node_failure") =>
           cluster'.monitor.failed = Overdue(cluster.nodes, cluster.monitor.now_ms)
       /\ \A n \in ClusterNodes :
              (n \in cluster.monitor.failed /\ n \notin cluster'.monitor.failed
                   /\ n \in DOMAIN cluster.nodes) =>
                  /\ ~cluster'.nodes[n].is_active
                  /\ cluster'.left = Append(cluster.left, n)
       /\ cluster'.left # cluster.left =>
              /\ Len(cluster'.left) = Len(cluster.left) + 1
              /\ cluster.nodes[cluster'.left[Len(cluster'.left)]].is_active
      ]_vars

====
